---- MODULE Spec2Model ----
(***************************************************************************)
(* LLRPReader (src/unnamed/part_001): the session controller of the Zebra  *)
(* FX9600 LLRP client, as a state machine.                                 *)
(*                                                                         *)
(* The client is single threaded: every action below is one callback of    *)
(* the event loop (a socket event, a timer, a call of the consumer), run   *)
(* to completion.  The remote reader and the network are the environment.  *)
(* Outbound frames are modelled byte for byte; inbound messages are        *)
(* modelled by the fields processMessage and its parsers read.             *)
(***************************************************************************)
EXTENDS Integers, Sequences, FiniteSets, TLC

(***************************************************************************)
(* Bounds of the model.                                                    *)
(***************************************************************************)
\* connect() calls per run (the first one and the reconnects)
MaxConn == 2
\* deviations of the remote reader per run: a message no request asked for, or a
\* response with a non-zero status
MaxDeviations == 1
\* frames in the stream a remote side sends to handleData
MaxFrames == 2
\* iterations of the loop of one handleData call
MaxIters == 3

(***************************************************************************)
(* Program constants.                                                      *)
(***************************************************************************)
\* the numbers in this model are below 2^31; a 32-bit value that may leave that
\* range (the message ID) is kept as two 16-bit halves <<high, low>>
U16 == 65536
CapDelay == 100
DefaultDbm == 30

MSG == [GET_READER_CAPABILITIES |-> 1, GET_READER_CAPABILITIES_RESPONSE |-> 11,
        ENABLE_EVENTS_AND_REPORTS |-> 64, ENABLE_EVENTS_AND_REPORTS_RESPONSE |-> 12,
        ADD_ROSPEC |-> 20, ADD_ROSPEC_RESPONSE |-> 30,
        DELETE_ROSPEC |-> 21, DELETE_ROSPEC_RESPONSE |-> 31,
        START_ROSPEC |-> 22, START_ROSPEC_RESPONSE |-> 32,
        ENABLE_ROSPEC |-> 24, ENABLE_ROSPEC_RESPONSE |-> 34,
        SET_READER_CONFIG |-> 3, SET_READER_CONFIG_RESPONSE |-> 13,
        READER_EVENT_NOTIFICATION |-> 63, RO_ACCESS_REPORT |-> 61,
        KEEPALIVE |-> 62, KEEPALIVE_ACK |-> 72,
        CLOSE_CONNECTION |-> 14, ERROR_MESSAGE |-> 100]

(***************************************************************************)
(* Buffer writes (big endian).  Node's writeUIntXX throws a RangeError for *)
(* a value outside the field's range; InU16 / InU32 are that range check.  *)
(***************************************************************************)
InU16(v) == v >= 0 /\ v < U16
U8(v) == <<v % 256>>
U16BE(v) == <<(v \div 256) % 256, v % 256>>
U32BE(v) == <<(v \div 16777216) % 256, (v \div 65536) % 256, (v \div 256) % 256, v % 256>>
ReadU16BE(b, o) == b[o + 1] * 256 + b[o + 2]
ReadU32BE(b, o) == b[o + 1] * 16777216 + b[o + 2] * 65536 + b[o + 3] * 256 + b[o + 4]

\* a message ID n = <<high, low>> stands for high * 2^16 + low
Id(k) == <<k \div U16, k % U16>>
Inc(n) == IF n[2] = U16 - 1 THEN <<n[1] + 1, 0>> ELSE <<n[1], n[2] + 1>>
\* the range check of writeUInt32BE
InU32(n) == n[1] < U16
WriteId(n) == U16BE(n[1]) \o U16BE(n[2])
ReadId(b, o) == <<ReadU16BE(b, o), ReadU16BE(b, o + 2)>>

RECURSIVE Concat(_)
Concat(ss) == IF ss = <<>> THEN <<>> ELSE Head(ss) \o Concat(Tail(ss))

(***************************************************************************)
(* Configuration (CONFIG, and the config ui-server builds).  Power values  *)
(* are kept in hundredths of a dBm, the unit of the wire format, so that   *)
(* powerDbm = raw / 100.0 is exact.                                        *)
(***************************************************************************)
ReconnectIntervals == {5000}
Configs == [antennas : {<<1>>}, antennaPowerDbm : {[a \in {1, 2, 3, 4} |-> 3000]},
            reconnectInterval : ReconnectIntervals, enableReconnect : BOOLEAN]
\* a configuration whose reconnectInterval is shorter than the 100 ms delay of
\* the capabilities request
ShortIntervals == {50}
ShortConfigs == [antennas : {<<1>>}, antennaPowerDbm : {[a \in {1, 2, 3, 4} |-> 3000]},
                 reconnectInterval : ShortIntervals, enableReconnect : {TRUE}]

(***************************************************************************)
(* Inbound messages, by the fields the dispatch and the parsers read:      *)
(* type; status, the code of the LLRPStatus (287) parameter, -1 when the   *)
(* message carries none; power and hops, the TransmitPowerLevelTableEntry  *)
(* and FrequencyHopTable parameters of a capabilities response in wire     *)
(* order; records, one BOOLEAN per TagReportData (240) of a report, TRUE   *)
(* when the record yields an EPC.                                          *)
(***************************************************************************)
Msg(t, st) == [type |-> t, status |-> st, power |-> <<>>, hops |-> <<>>, records |-> <<>>]
CapsMsg(st, pw, hp) == [type |-> 11, status |-> st, power |-> pw, hops |-> hp, records |-> <<>>]
ReportMsg(recs) == [type |-> 61, status |-> -1, power |-> <<>>, hops |-> <<>>, records |-> recs]
NoMsg == Msg(0, -1)

\* scenario S1 of the specification: two power entries, one hop table
CapsS1 == CapsMsg(0, <<[index |-> 200, raw |-> 3000], [index |-> 1, raw |-> 1000]>>, <<1>>)
\* scenario S2: no power entries and no hop tables
CapsS2 == CapsMsg(0, <<>>, <<>>)
CapsRejected == CapsMsg(100, <<>>, <<>>)

(***************************************************************************)
(* The power table.                                                        *)
(***************************************************************************)
\* Array.prototype.sort with (a, b) => a.powerDbm - b.powerDbm: stable
RECURSIVE InsertByPower(_, _)
InsertByPower(sorted, e) ==
    IF sorted = <<>> THEN <<e>>
    ELSE IF e.powerDbm < Head(sorted).powerDbm THEN <<e>> \o sorted
    ELSE <<Head(sorted)>> \o InsertByPower(Tail(sorted), e)

RECURSIVE SortByPower(_)
SortByPower(t) ==
    IF t = <<>> THEN <<>>
    ELSE InsertByPower(SortByPower(SubSeq(t, 1, Len(t) - 1)), t[Len(t)])

Abs(x) == IF x < 0 THEN -x ELSE x
Min(a, b) == IF a < b THEN a ELSE b
Max(a, b) == IF a > b THEN a ELSE b
\* Buffer.slice(start, end)
slice(b, start, end) == SubSeq(b, start + 1, Min(end, Len(b)))
\* Math.round of a value given in hundredths
RoundHundredths(d) == (d + 50) \div 100

RECURSIVE ClosestFrom(_, _, _, _)
ClosestFrom(table, i, closest, desired) ==
    IF i > Len(table) THEN closest
    ELSE IF Abs(table[i].powerDbm - desired) < Abs(closest.powerDbm - desired)
         THEN ClosestFrom(table, i + 1, table[i], desired)
         ELSE ClosestFrom(table, i + 1, closest, desired)

findClosestPowerIndex(powerTable, desiredDbm) ==
    IF Len(powerTable) = 0
    THEN Min(Max(1, RoundHundredths(desiredDbm)), 100)
    ELSE ClosestFrom(powerTable, 1, powerTable[1], desiredDbm).index

\* this.config.antennaPowerDbm[ant] || 30
DesiredDbm(cfg, ant) ==
    IF ant \in DOMAIN cfg.antennaPowerDbm /\ cfg.antennaPowerDbm[ant] # 0
    THEN cfg.antennaPowerDbm[ant] ELSE DefaultDbm * 100

RECURSIVE ComputeFrom(_, _, _, _)
ComputeFrom(cfg, powerTable, api, i) ==
    IF i > Len(cfg.antennas) THEN api
    ELSE LET ant == cfg.antennas[i]
             idx == findClosestPowerIndex(powerTable, DesiredDbm(cfg, ant))
         IN ComputeFrom(cfg, powerTable,
                        [a \in (DOMAIN api) \cup {ant} |-> IF a = ant THEN idx ELSE api[a]],
                        i + 1)

(***************************************************************************)
(* buildROSpec, byte for byte.                                             *)
(***************************************************************************)
tlv(type, valueBuf) == U16BE(type) \o U16BE(4 + Len(valueBuf)) \o valueBuf
\* mutant: a Null trigger without its duration
stopTriggerTLVNoDuration(typeNum, triggerType, durationMs) ==
    tlv(typeNum, U8(triggerType))

stopTriggerTLV(typeNum, triggerType, durationMs) ==
    tlv(typeNum, U8(triggerType) \o U32BE(durationMs))
\* mutant: the HopTableID written is the default 0
rfTransmitterDefaultHop(hopTableId, powerIndex) ==
    tlv(224, U16BE(0) \o U16BE(0) \o U16BE(powerIndex))

rfTransmitter(hopTableId, powerIndex) ==
    tlv(224, U16BE(hopTableId) \o U16BE(0) \o U16BE(powerIndex))
\* this.antennaPowerIndex[antennaId] ?? (last entry of the power table, or 1)
PowerIndexOf(self, antennaId) ==
    IF antennaId \in DOMAIN self.antennaPowerIndex THEN self.antennaPowerIndex[antennaId]
    ELSE IF Len(self.powerTable) > 0 THEN self.powerTable[Len(self.powerTable)].index
    ELSE 1
antennaConfiguration(self, antennaId) ==
    tlv(222, U16BE(antennaId) \o rfTransmitter(self.hopTableId, PowerIndexOf(self, antennaId)))
\* mutant: one AntennaConfiguration, that of the first antenna
inventoryParameterSpecFirstAntenna(self, antennaIds) ==
    tlv(186, U16BE(1) \o U8(1) \o antennaConfiguration(self, antennaIds[1]))

inventoryParameterSpecWithAntennas(self, antennaIds) ==
    tlv(186, U16BE(1) \o U8(1)
             \o Concat([i \in 1..Len(antennaIds) |-> antennaConfiguration(self, antennaIds[i])]))
buildROSpec(self, cfg) ==
    LET rospecHeaderFields == U32BE(1) \o U8(0) \o U8(0)
        roStartTrigger == tlv(179, <<0>>)
        roStopTrigger == stopTriggerTLV(182, 0, 0)
        roBoundary == tlv(178, roStartTrigger \o roStopTrigger)
        antennaCount == U16BE(Len(cfg.antennas))
        antennaIdList == Concat([i \in 1..Len(cfg.antennas) |-> U16BE(cfg.antennas[i])])
        aiStopTrigger == stopTriggerTLV(184, 0, 0)
        invParamSpec == inventoryParameterSpecWithAntennas(self, cfg.antennas)
        aiSpec == tlv(183, antennaCount \o antennaIdList \o aiStopTrigger \o invParamSpec)
        tagReportContentSelector == tlv(238, <<0, 0>>)
        roReportSpec == tlv(237, U8(1) \o U16BE(1) \o tagReportContentSelector)
    IN tlv(177, rospecHeaderFields \o roBoundary \o aiSpec \o roReportSpec)

(***************************************************************************)
(* State.                                                                  *)
(***************************************************************************)
VARIABLES
    config,            \* this.config
    started,           \* the consumer has called connect()
    socket,            \* this.socket is not null
    sockState,         \* the net.Socket last created: none, connecting, open,
                       \* closing (destroyed or ended, 'close' not yet emitted), closed
    connected,         \* this.connected
    messageId,         \* this.messageId
    buffer,            \* this.buffer: the messages whose frames are incomplete
    shouldReconnect,   \* this.shouldReconnect
    reconnectTimer,    \* the reconnect timer is pending
    isShuttingDown,    \* this.isShuttingDown
    configStarted,     \* this.configStarted
    rospecStarted,     \* this.rospecStarted
    powerTable,        \* this.powerTable
    antennaPowerIndex, \* this.antennaPowerIndex
    hopTableIds,       \* this.hopTableIds
    hopTableId,        \* this.hopTableId
    capTimers,         \* pending 100 ms capabilities timers
    destroyTimer,      \* the 500 ms timer of disconnect() is pending
    threw,             \* an exception left a handler (uncaught: the process ends)
    written,           \* the frames written to the current socket, in order, past
                       \* the first base ones
    base,              \* the number of frames written to the current socket before
                       \* those of written (as a message ID is: high and low half)
    events,            \* the events emitted since the current socket was created
    tags,              \* the 'tag' events emitted since the current socket was created
    conns,             \* sockets created so far
    served,            \* the frames of written the remote reader has read
    injected,          \* deviations of the remote reader so far
    deviated,          \* on this connection the remote reader did something else
                       \* than answering a request with status 0
    rx,                \* the message dispatched by the last step, NoMsg if none was
    errTypes,          \* types of the responses with a non-zero status dispatched
                       \* on this connection
    startOk,           \* a START_ROSPEC_RESPONSE with status 0 was dispatched on
                       \* this connection
    sent,              \* the frames the remote side sends, as it built them
    stream,            \* the bytes of them that no 'data' event has delivered yet
    cbuf,              \* this.buffer, byte for byte
    dispatched,        \* the arguments of the calls of processMessage, in order
    iters,             \* iterations of the loop of the running handleData call
    looping,           \* a handleData call is in its loop
    tagLog,            \* the 'tag' events emitted by the calls of processMessage
    fin,               \* the arguments of a function studied on its own
    fout,              \* its result
    reader,            \* ui-server: reader (0 for null, else its place in readers)
    running,           \* ui-server: running
    antennaSelection,  \* ui-server: antennaSelection
    powerDbm,          \* ui-server: powerDbm
    restartTimers,     \* ui-server: pending 500 ms timers of updateConfig
    readers,           \* ui-server: the LLRPReader objects created so far
    requests,          \* ui-server: the requests handled so far
    gotCaps,           \* minimal.js: gotCaps
    pendingStart,      \* minimal.js: pendingStart
    txPowerIndex,      \* minimal.js: txPowerIndex
    sentTypes,         \* minimal.js: the types of the messages written
    handledTypes       \* minimal.js: the types of the messages handled

objVars == <<socket, connected, messageId, configStarted, rospecStarted, powerTable,
             antennaPowerIndex, hopTableIds, hopTableId, threw, written, base, events,
             tags>>
sessionVars == <<config, started, sockState, buffer, shouldReconnect, reconnectTimer,
                 isShuttingDown, capTimers, destroyTimer, conns, served, injected,
                 deviated, rx, errTypes, startOk, objVars>>
codecVars == <<sent, stream, cbuf, dispatched, iters, looping, tagLog>>
fnVars == <<fin, fout>>
uiVars == <<reader, running, antennaSelection, powerDbm, restartTimers, readers,
            requests>>
miniVars == <<gotCaps, pendingStart, txPowerIndex, sentTypes, handledTypes>>
appVars == <<uiVars, miniVars>>
unitVars == <<codecVars, fnVars, appVars>>
vars == <<sessionVars, unitVars>>

\* the fields of the object the methods below read and write
This == [socket |-> socket, connected |-> connected, messageId |-> messageId,
         configStarted |-> configStarted, rospecStarted |-> rospecStarted,
         powerTable |-> powerTable, antennaPowerIndex |-> antennaPowerIndex,
         hopTableIds |-> hopTableIds, hopTableId |-> hopTableId, threw |-> threw,
         written |-> written, base |-> base, events |-> events, tags |-> tags]

Becomes(r) ==
    /\ socket' = r.socket /\ connected' = r.connected /\ messageId' = r.messageId
    /\ configStarted' = r.configStarted /\ rospecStarted' = r.rospecStarted
    /\ powerTable' = r.powerTable /\ antennaPowerIndex' = r.antennaPowerIndex
    /\ hopTableIds' = r.hopTableIds /\ hopTableId' = r.hopTableId /\ threw' = r.threw
    /\ written' = r.written /\ base' = r.base /\ events' = r.events /\ tags' = r.tags

NoIndex == [a \in {} |-> 0]

(***************************************************************************)
(* Outbound frames.                                                        *)
(***************************************************************************)
\* mutant: the two high bits of the type are left out of byte 0
HeaderLowType(type, msgLen, id) ==
    U8(4) \o U8(type % 256) \o U32BE(msgLen) \o WriteId(id)

Header(type, msgLen, id) ==
    U8(4 + ((type \div 256) % 4)) \o U8(type % 256) \o U32BE(msgLen) \o WriteId(id)
FrameType(f) == (f[1] % 4) * 256 + f[2]
FrameLen(f) == ReadU32BE(f, 2)
FrameId(f) == ReadId(f, 6)
FramePayload(f) == SubSeq(f, 11, Len(f))
Types(w) == [i \in 1..Len(w) |-> FrameType(w[i])]

\* sendMessage: this.messageId++ is evaluated before writeUInt32BE checks its range
sendMessage(self, type, payload) ==
    IF self.threw \/ ~self.socket \/ ~self.connected THEN self
    ELSE IF ~InU32(self.messageId)
    THEN [self EXCEPT !.messageId = Inc(@), !.threw = TRUE]
    ELSE [self EXCEPT !.messageId = Inc(@),
                      !.written = Append(@, Header(type, 10 + Len(payload), self.messageId)
                                            \o payload)]

sendGetReaderCapabilities(self) == sendMessage(self, MSG.GET_READER_CAPABILITIES, <<0>>)
sendDeleteROSpec(self) == sendMessage(self, MSG.DELETE_ROSPEC, U32BE(0))
sendAddROSpec(self, cfg) == sendMessage(self, MSG.ADD_ROSPEC, buildROSpec(self, cfg))
\* mutant: START_ROSPEC is sent in the place of ENABLE_ROSPEC
sendEnableROSpecAsStart(self) == sendMessage(self, MSG.START_ROSPEC, U32BE(1))

sendEnableROSpec(self) == sendMessage(self, MSG.ENABLE_ROSPEC, U32BE(1))
sendStartROSpec(self) == sendMessage(self, MSG.START_ROSPEC, U32BE(1))
sendKeepaliveAck(self) == sendMessage(self, MSG.KEEPALIVE_ACK, <<>>)
sendCloseConnection(self) == sendMessage(self, MSG.CLOSE_CONNECTION, <<>>)

emit(self, ev) == [self EXCEPT !.events = Append(@, ev)]

(***************************************************************************)
(* Inbound dispatch.                                                       *)
(***************************************************************************)
\* the LLRPStatus check of parseCapabilities: FALSE on a non-zero status code
CapabilitiesAccepted(m) == ~(m.status > 0)

RECURSIVE NonZero(_)
NonZero(ids) ==
    IF ids = <<>> THEN <<>>
    ELSE (IF Head(ids) > 0 THEN <<Head(ids)>> ELSE <<>>) \o NonZero(Tail(ids))

\* parseCapabilities past the status check: the entries are pushed, the table is
\* sorted, the hop table ID is selected
parseCapabilities(self, m) ==
    LET pushed == self.powerTable
                  \o [i \in 1..Len(m.power) |->
                        [index |-> m.power[i].index, powerDbm |-> m.power[i].raw]]
        hops == self.hopTableIds \o NonZero(m.hops)
    IN [self EXCEPT !.powerTable = IF Len(m.power) > 0 THEN SortByPower(pushed) ELSE @,
                    !.hopTableIds = hops,
                    !.hopTableId = IF Len(hops) > 0 THEN hops[1] ELSE 1]

computePowerIndices(self, cfg) ==
    [self EXCEPT !.antennaPowerIndex = ComputeFrom(cfg, self.powerTable, @, 1)]

\* mutant: the status code is not looked at
checkResponseAlways(m) == TRUE

\* checkResponse: TRUE unless an LLRPStatus carries a non-zero status code
checkResponse(m) == ~(m.status > 0)

RECURSIVE CountEpc(_)
CountEpc(recs) ==
    IF recs = <<>> THEN 0 ELSE (IF Head(recs) THEN 1 ELSE 0) + CountEpc(Tail(recs))

\* mutant: the rospecStarted guard is missing
parseTagReportUnguarded(self, m) == [self EXCEPT !.tags = @ + CountEpc(m.records)]

\* parseTagReport: one 'tag' event per TagReportData that yields an EPC
parseTagReport(self, m) ==
    IF ~self.rospecStarted THEN self
    ELSE [self EXCEPT !.tags = @ + CountEpc(m.records)]

\* mutant: the notification drives the startup chain
noteEventNotificationDrives(self) == sendDeleteROSpec([self EXCEPT !.configStarted = TRUE])

\* the READER_EVENT_NOTIFICATION case: a note that it arrived
noteEventNotification(self) == [self EXCEPT !.configStarted = TRUE]

\* the result of checkResponse is used for START_ROSPEC_RESPONSE only: after a
\* SET_READER_CONFIG, DELETE, ADD or ENABLE response the next request is sent
\* whatever the status
processMessage(self, cfg, m) ==
    CASE m.type = MSG.ENABLE_EVENTS_AND_REPORTS_RESPONSE -> self
      [] m.type = MSG.READER_EVENT_NOTIFICATION -> noteEventNotification(self)
      [] m.type = MSG.GET_READER_CAPABILITIES_RESPONSE ->
            IF ~CapabilitiesAccepted(m) THEN self
            ELSE sendDeleteROSpec(computePowerIndices(parseCapabilities(self, m), cfg))
      [] m.type = MSG.ERROR_MESSAGE -> self
      [] m.type = MSG.SET_READER_CONFIG_RESPONSE -> sendDeleteROSpec(self)
      [] m.type = MSG.DELETE_ROSPEC_RESPONSE -> sendAddROSpec(self, cfg)
      [] m.type = MSG.ADD_ROSPEC_RESPONSE -> sendEnableROSpec(self)
      [] m.type = MSG.ENABLE_ROSPEC_RESPONSE -> sendStartROSpec(self)
      [] m.type = MSG.START_ROSPEC_RESPONSE ->
            IF checkResponse(m) THEN emit([self EXCEPT !.rospecStarted = TRUE], "ready")
            ELSE self
      [] m.type = MSG.RO_ACCESS_REPORT -> parseTagReport(self, m)
      [] m.type = MSG.KEEPALIVE -> sendKeepaliveAck(self)
      [] OTHER -> self

(***************************************************************************)
(* The remote reader.                                                      *)
(***************************************************************************)
\* the response type of a request, 0 for a message that has none
ResponseType(t) ==
    CASE t = 1 -> 11 [] t = 21 -> 31 [] t = 20 -> 30 [] t = 24 -> 34 [] t = 22 -> 32
      [] OTHER -> 0

\* the first frame past served that asks for a response, 0 if there is none
NextRequest ==
    LET open == {i \in (served + 1)..Len(written) : ResponseType(FrameType(written[i])) # 0}
    IN IF open = {} THEN 0 ELSE CHOOSE i \in open : \A j \in open : i <= j

OkReplies(t) == IF t = 1 THEN {CapsS1, CapsS2} ELSE {Msg(ResponseType(t), 0)}
ErrReplies(t) == IF t = 1 THEN {CapsRejected} ELSE {Msg(ResponseType(t), 100)}

Unsolicited ==
    {Msg(63, -1), Msg(62, -1), ReportMsg(<<TRUE, FALSE>>), Msg(100, 100), Msg(13, 0),
     Msg(30, 0), Msg(32, 0)}

StartupResponses == {11, 31, 30, 34, 32}

(***************************************************************************)
(* Actions: one per callback.                                              *)
(***************************************************************************)
\* the event loop runs a callback: the process is alive, and no 'close' event is
\* pending (it is emitted on the next tick, before any other callback)
Idle == ~threw /\ sockState # "closing"

\* the environment ends connections only while a reconnect is within the bounds
MayFail == conns < MaxConn \/ ~shouldReconnect

\* mutant: the reset leaves the tables of the capabilities alone
resetSessionKeepingTables(self) ==
    [self EXCEPT !.configStarted = FALSE, !.rospecStarted = FALSE, !.messageId = Id(1)]

\* the reset of the session state in the reconnect timer's callback
resetSession(self) ==
    [self EXCEPT !.configStarted = FALSE, !.rospecStarted = FALSE, !.messageId = Id(1),
                 !.powerTable = <<>>, !.antennaPowerIndex = NoIndex,
                 !.hopTableIds = <<>>, !.hopTableId = 1]

\* connect(), applied to the object r
connect(r) ==
    IF isShuttingDown
    THEN /\ Becomes(r)
         /\ UNCHANGED <<sockState, conns, served, deviated, errTypes, startOk>>
    ELSE /\ Becomes([r EXCEPT !.socket = TRUE, !.written = <<>>, !.base = Id(0),
                              !.events = <<>>, !.tags = 0])
         /\ sockState' = "connecting"
         /\ conns' = conns + 1
         /\ served' = 0
         /\ deviated' = FALSE
         /\ errTypes' = {}
         /\ startOk' = FALSE

\* the consumer calls connect()
CallConnect ==
    /\ Idle /\ ~started
    /\ started' = TRUE
    /\ connect(This)
    /\ rx' = NoMsg
    /\ UNCHANGED <<config, buffer, shouldReconnect, reconnectTimer, isShuttingDown,
                   capTimers, destroyTimer, injected>>
    /\ UNCHANGED unitVars

\* the callback of socket.connect
TcpConnected ==
    /\ Idle /\ sockState = "connecting"
    /\ sockState' = "open"
    /\ Becomes(sendMessage(emit([This EXCEPT !.connected = TRUE], "connected"),
                           MSG.ENABLE_EVENTS_AND_REPORTS, <<>>))
    /\ capTimers' = capTimers + 1
    /\ rx' = NoMsg
    /\ UNCHANGED <<config, started, buffer, shouldReconnect, reconnectTimer,
                   isShuttingDown, destroyTimer, conns, served, injected, deviated,
                   errTypes, startOk>>
    /\ UNCHANGED unitVars

\* the 100 ms timer armed by the connect callback
CapTimerFire ==
    /\ Idle /\ capTimers > 0
    /\ capTimers' = capTimers - 1
    /\ Becomes(IF connected THEN sendGetReaderCapabilities(This) ELSE This)
    /\ rx' = NoMsg
    /\ UNCHANGED <<config, started, sockState, buffer, shouldReconnect, reconnectTimer,
                   isShuttingDown, destroyTimer, conns, served, injected, deviated,
                   errTypes, startOk>>
    /\ UNCHANGED unitVars

\* handleData has a complete frame: processMessage(m)
Dispatch(m) ==
    /\ Becomes(processMessage(This, config, m))
    /\ rx' = m
    /\ errTypes' = IF m.type \in StartupResponses /\ m.status > 0
                   THEN errTypes \cup {m.type} ELSE errTypes
    /\ startOk' = (startOk \/ (m.type = MSG.START_ROSPEC_RESPONSE /\ m.status = 0))

\* handleData has the first bytes of a frame only: they stay in this.buffer
Keep(m) ==
    /\ buffer' = <<m>>
    /\ rx' = NoMsg
    /\ UNCHANGED <<objVars, errTypes, startOk>>

\* a 'data' event with the frame of m, or with its first bytes
Receive(m) ==
    /\ Idle /\ sockState = "open" /\ buffer = <<>>
    /\ \/ Dispatch(m) /\ UNCHANGED buffer
       \/ Keep(m)
    /\ UNCHANGED <<config, started, sockState, shouldReconnect, reconnectTimer,
                   isShuttingDown, capTimers, destroyTimer, conns>>
    /\ UNCHANGED unitVars

\* a 'data' event with the rest of the frame in this.buffer
ReceiveRest ==
    /\ Idle /\ sockState = "open" /\ buffer # <<>>
    /\ Dispatch(buffer[1])
    /\ buffer' = <<>>
    /\ UNCHANGED <<config, started, sockState, shouldReconnect, reconnectTimer,
                   isShuttingDown, capTimers, destroyTimer, conns, served, injected,
                   deviated>>
    /\ UNCHANGED unitVars

\* the remote reader answers the next request with status 0
ReplyOk ==
    /\ NextRequest # 0
    /\ \E m \in OkReplies(FrameType(written[NextRequest])) : Receive(m)
    /\ served' = NextRequest
    /\ UNCHANGED <<injected, deviated>>

\* the remote reader answers the next request with a non-zero status
ReplyError ==
    /\ NextRequest # 0
    /\ \E m \in ErrReplies(FrameType(written[NextRequest])) : Receive(m)
    /\ injected < MaxDeviations
    /\ served' = NextRequest
    /\ injected' = injected + 1
    /\ deviated' = TRUE

\* the remote reader sends a message no request asked for
SendUnsolicited ==
    /\ injected < MaxDeviations
    /\ \E m \in Unsolicited : Receive(m)
    /\ injected' = injected + 1
    /\ deviated' = TRUE
    /\ UNCHANGED served

\* mutant: the 'timeout' handler calls connect() on top of the socket it has
SocketTimeoutConnects ==
    /\ Idle /\ sockState = "connecting" /\ MayFail
    /\ connect(This)
    /\ rx' = NoMsg
    /\ UNCHANGED <<config, started, buffer, shouldReconnect, reconnectTimer,
                   isShuttingDown, capTimers, destroyTimer, injected>>
    /\ UNCHANGED unitVars

\* the 30 s timeout set before the TCP connection is up: socket.destroy()
SocketTimeout ==
    /\ Idle /\ sockState = "connecting" /\ MayFail
    /\ sockState' = "closing"
    /\ rx' = NoMsg
    /\ UNCHANGED <<config, started, buffer, shouldReconnect, reconnectTimer,
                   isShuttingDown, capTimers, destroyTimer, conns, served, injected,
                   deviated, errTypes, startOk, objVars>>
    /\ UNCHANGED unitVars

\* the 'error' handler (the socket is destroyed by the error)
SocketError ==
    /\ Idle /\ sockState \in {"connecting", "open"} /\ MayFail
    /\ sockState' = "closing"
    /\ Becomes(IF ~isShuttingDown THEN emit(This, "error") ELSE This)
    /\ deviated' = TRUE
    /\ rx' = NoMsg
    /\ UNCHANGED <<config, started, buffer, shouldReconnect, reconnectTimer,
                   isShuttingDown, capTimers, destroyTimer, conns, served, injected,
                   errTypes, startOk>>
    /\ UNCHANGED unitVars

\* the remote reader closes the connection
RemoteEnd ==
    /\ Idle /\ sockState = "open" /\ MayFail
    /\ sockState' = "closing"
    /\ deviated' = TRUE
    /\ rx' = NoMsg
    /\ UNCHANGED <<config, started, buffer, shouldReconnect, reconnectTimer,
                   isShuttingDown, capTimers, destroyTimer, conns, served, injected,
                   errTypes, startOk, objVars>>
    /\ UNCHANGED unitVars

\* mutant: scheduleReconnect arms the timer whatever shouldReconnect is
scheduleReconnectAlways(timer) == TRUE

\* scheduleReconnect: the reconnect timer after the call
scheduleReconnect(timer) ==
    IF ~shouldReconnect \/ isShuttingDown THEN timer ELSE TRUE

\* the 'close' handler
SocketClose ==
    /\ ~threw /\ sockState = "closing"
    /\ sockState' = "closed"
    /\ Becomes(IF ~isShuttingDown THEN emit([This EXCEPT !.connected = FALSE], "disconnect")
               ELSE [This EXCEPT !.connected = FALSE])
    /\ reconnectTimer' = IF ~isShuttingDown THEN scheduleReconnect(reconnectTimer)
                         ELSE reconnectTimer
    /\ rx' = NoMsg
    /\ UNCHANGED <<config, started, buffer, shouldReconnect, isShuttingDown, capTimers,
                   destroyTimer, conns, served, injected, deviated, errTypes, startOk>>
    /\ UNCHANGED unitVars

\* the reconnect timer: reset of the session state, then connect().  A timer of
\* 100 ms armed before the reconnect timer was armed has fired by then, unless
\* reconnectInterval is shorter
ReconnectFire ==
    /\ Idle /\ reconnectTimer
    /\ config.reconnectInterval >= CapDelay => capTimers = 0
    /\ reconnectTimer' = FALSE
    /\ buffer' = <<>>
    /\ connect(resetSession(This))
    /\ rx' = NoMsg
    /\ UNCHANGED <<config, started, shouldReconnect, isShuttingDown, capTimers,
                   destroyTimer, injected>>
    /\ UNCHANGED unitVars

\* the consumer calls disconnect()
Disconnect ==
    /\ Idle /\ started /\ ~isShuttingDown
    /\ isShuttingDown' = TRUE
    /\ shouldReconnect' = FALSE
    /\ reconnectTimer' = FALSE
    /\ Becomes(IF socket /\ connected THEN sendCloseConnection(This) ELSE This)
    /\ destroyTimer' = (destroyTimer \/ socket)
    /\ rx' = NoMsg
    /\ UNCHANGED <<config, started, sockState, buffer, capTimers, conns, served,
                   injected, deviated, errTypes, startOk>>
    /\ UNCHANGED unitVars

\* the 500 ms timer of disconnect(): socket.destroy(), this.socket = null
DestroyTimerFire ==
    /\ Idle /\ destroyTimer
    /\ destroyTimer' = FALSE
    /\ sockState' = IF socket /\ sockState \in {"connecting", "open"} THEN "closing"
                    ELSE sockState
    /\ Becomes([This EXCEPT !.socket = FALSE])
    /\ rx' = NoMsg
    /\ UNCHANGED <<config, started, buffer, shouldReconnect, reconnectTimer,
                   isShuttingDown, capTimers, conns, served, injected, deviated,
                   errTypes, startOk>>
    /\ UNCHANGED unitVars

\* ui-server.js and minimal.js as their modules are loaded
AppIdle ==
    /\ reader = 0 /\ running = FALSE /\ antennaSelection = <<1>> /\ powerDbm = 30
    /\ restartTimers = 0 /\ readers = <<>> /\ requests = <<>>
    /\ gotCaps = FALSE /\ pendingStart = FALSE /\ txPowerIndex = 1
    /\ sentTypes = <<>> /\ handledTypes = <<>>

\* no function is studied on its own
NoValue == [fn |-> "none"]
UnitIdle ==
    /\ sent = <<>> /\ stream = <<>> /\ cbuf = <<>> /\ dispatched = <<>>
    /\ iters = 0 /\ looping = FALSE /\ tagLog = <<>>
    /\ fin = NoValue /\ fout = NoValue
    /\ AppIdle

Constructed(cfgs) ==
    /\ config \in cfgs
    /\ started = FALSE
    /\ socket = FALSE
    /\ sockState = "none"
    /\ connected = FALSE
    /\ messageId = Id(1)
    /\ buffer = <<>>
    /\ shouldReconnect = config.enableReconnect
    /\ reconnectTimer = FALSE
    /\ isShuttingDown = FALSE
    /\ configStarted = FALSE
    /\ rospecStarted = FALSE
    /\ powerTable = <<>>
    /\ antennaPowerIndex = NoIndex
    /\ hopTableIds = <<>>
    /\ hopTableId = 1
    /\ capTimers = 0
    /\ destroyTimer = FALSE
    /\ threw = FALSE
    /\ written = <<>>
    /\ base = Id(0)
    /\ events = <<>>
    /\ tags = 0
    /\ conns = 0
    /\ served = 0
    /\ injected = 0
    /\ deviated = FALSE
    /\ rx = NoMsg
    /\ errTypes = {}
    /\ startOk = FALSE

InitWith(cfgs) == Constructed(cfgs) /\ UnitIdle

Init == InitWith(Configs)

\* A session that has been reading for so long that 2^32 - 2 frames were written
\* on its connection (every KEEPALIVE takes one message ID): the next message ID
\* is 2^32 - 1.  written logs the frames past these.
LongRunning ==
    /\ config \in Configs
    /\ started = TRUE
    /\ socket = TRUE
    /\ sockState = "open"
    /\ connected = TRUE
    /\ messageId = <<U16 - 1, U16 - 1>>
    /\ buffer = <<>>
    /\ shouldReconnect = config.enableReconnect
    /\ reconnectTimer = FALSE
    /\ isShuttingDown = FALSE
    /\ configStarted = FALSE
    /\ rospecStarted = TRUE
    /\ powerTable = <<>>
    /\ antennaPowerIndex = ComputeFrom(config, <<>>, NoIndex, 1)
    /\ hopTableIds = <<>>
    /\ hopTableId = 1
    /\ capTimers = 0
    /\ destroyTimer = FALSE
    /\ threw = FALSE
    /\ written = <<>>
    /\ base = <<U16 - 1, U16 - 2>>
    /\ events = <<"connected", "ready">>
    /\ tags = 0
    /\ conns = 1
    /\ served = 0
    /\ injected = 0
    /\ deviated = FALSE
    /\ rx = NoMsg
    /\ errTypes = {}
    /\ startOk = TRUE
    /\ UnitIdle

InitWrap == Init \/ LongRunning

Next ==
    \/ CallConnect
    \/ TcpConnected
    \/ CapTimerFire
    \/ ReplyOk
    \/ ReplyError
    \/ SendUnsolicited
    \/ ReceiveRest
    \/ SocketTimeout
    \/ SocketError
    \/ RemoteEnd
    \/ SocketClose
    \/ ReconnectFire
    \/ Disconnect
    \/ DestroyTimerFire

Spec == Init /\ [][Next]_vars

\* the same object, configured with a short reconnectInterval
SpecShort == InitWith(ShortConfigs) /\ [][Next]_vars

\* the same steps, also from a session whose message ID is about to pass 2^32 - 1
SpecWrap == InitWrap /\ [][Next]_vars

\* the steps against a reader that sends nothing unsolicited
NextSolicited ==
    \/ CallConnect
    \/ TcpConnected
    \/ CapTimerFire
    \/ ReplyOk
    \/ ReplyError
    \/ ReceiveRest
    \/ SocketTimeout
    \/ SocketError
    \/ RemoteEnd
    \/ SocketClose
    \/ ReconnectFire
    \/ Disconnect
    \/ DestroyTimerFire

\* The event loop runs every timer that is due and every pending socket event; a
\* reader that answers with status 0 gets its answer delivered.  Nothing forces
\* the environment to connect, to fail or to deviate.
FairSpec ==
    /\ Init /\ [][NextSolicited]_vars
    /\ WF_vars(CapTimerFire)
    /\ WF_vars(ReplyOk)
    /\ WF_vars(ReceiveRest)
    /\ WF_vars(SocketClose)
    /\ WF_vars(ReconnectFire)
    /\ WF_vars(DestroyTimerFire)

\* the event loop with a remote reader that may stay silent: the timers and
\* the socket events happen, the reader's answers need not
FairSpecSilent ==
    /\ Init /\ [][NextSolicited]_vars
    /\ WF_vars(CapTimerFire)
    /\ WF_vars(SocketTimeout)
    /\ WF_vars(SocketClose)
    /\ WF_vars(ReconnectFire)
    /\ WF_vars(DestroyTimerFire)

(***************************************************************************)
(* parseTagReport and parseTagReportData, byte for byte.  A field of a tag *)
(* that is null or undefined is the empty sequence, a field that is set is *)
(* the sequence of its value.                                              *)
(***************************************************************************)
Unset == <<>>
Some(v) == <<v>>
\* const tag = { epc: null, antenna: null, rssi: null, timestamp: null }
NewTag == [epc |-> Unset, antenna |-> Unset, rssi |-> Unset, timestamp |-> Unset,
           seenCount |-> Unset]
\* !tag.antenna: null, undefined or 0
NoAntenna(tag) == IF tag.antenna = Unset THEN TRUE ELSE tag.antenna[1] = 0
\* !tag.epc: null or the empty string
NoEpc(tag) == IF tag.epc = Unset THEN TRUE ELSE tag.epc[1] = <<>>

\* data[offset] & 0x80
Msb(byte) == byte >= 128
HexDigits == <<"0", "1", "2", "3", "4", "5", "6", "7", "8", "9", "A", "B", "C", "D", "E", "F">>
\* buf.toString('hex').toUpperCase(), as the sequence of its characters
toHex(buf) ==
    [i \in 1..2 * Len(buf) |->
        IF i % 2 = 1 THEN HexDigits[(buf[(i + 1) \div 2] \div 16) + 1]
        ELSE HexDigits[(buf[i \div 2] % 16) + 1]]
readInt8(b, o) == IF b[o + 1] >= 128 THEN b[o + 1] - 256 ELSE b[o + 1]
\* a 64-bit value as its four 16-bit parts, the highest first
readBigUInt64BE(b, o) == [k \in 1..4 |-> ReadU16BE(b, o + 2 * (k - 1))]

\* mutant: FirstSeenTimestampUTC taken for a 2-byte value
tvAdvanceShortTimestamp(tvType) ==
    CASE tvType \in {1, 7, 8, 10, 15, 16} -> 3
      [] tvType = 6 -> 2
      [] tvType = 9 -> 9
      [] tvType = 13 -> 13
      [] tvType = 14 -> 5
      [] OTHER -> 0

\* what the cases of the switch add to offset; 0 for the default case
tvAdvance(tvType) ==
    CASE tvType \in {1, 7, 10, 15, 16} -> 3
      [] tvType = 6 -> 2
      [] tvType \in {8, 9} -> 9
      [] tvType = 13 -> 13
      [] tvType = 14 -> 5
      [] OTHER -> 0

\* mutant: PeakRSSI read as an unsigned byte
tvFieldUnsigned(data, o, tag, tvType) ==
    CASE tvType = 1 /\ o + 3 <= Len(data) -> [tag EXCEPT !.antenna = Some(ReadU16BE(data, o + 1))]
      [] tvType = 6 /\ o + 2 <= Len(data) -> [tag EXCEPT !.rssi = Some(data[o + 2])]
      [] tvType = 9 /\ o + 9 <= Len(data) ->
            [tag EXCEPT !.timestamp = Some(readBigUInt64BE(data, o + 1))]
      [] tvType = 10 /\ o + 3 <= Len(data) ->
            [tag EXCEPT !.seenCount = Some(ReadU16BE(data, o + 1))]
      [] tvType = 13 /\ o + 13 <= Len(data) ->
            [tag EXCEPT !.epc = Some(toHex(slice(data, o + 1, o + 13)))]
      [] OTHER -> tag

\* the field a TV parameter at offset o sets, where its value is all there
tvField(data, o, tag, tvType) ==
    CASE tvType = 1 /\ o + 3 <= Len(data) -> [tag EXCEPT !.antenna = Some(ReadU16BE(data, o + 1))]
      [] tvType = 6 /\ o + 2 <= Len(data) -> [tag EXCEPT !.rssi = Some(readInt8(data, o + 1))]
      [] tvType = 9 /\ o + 9 <= Len(data) ->
            [tag EXCEPT !.timestamp = Some(readBigUInt64BE(data, o + 1))]
      [] tvType = 10 /\ o + 3 <= Len(data) ->
            [tag EXCEPT !.seenCount = Some(ReadU16BE(data, o + 1))]
      [] tvType = 13 /\ o + 13 <= Len(data) ->
            [tag EXCEPT !.epc = Some(toHex(slice(data, o + 1, o + 13)))]
      [] OTHER -> tag

\* the field a TLV parameter at offset o sets: EPCData (241) and EPC-96 (13)
tlvField(data, o, tag, tlvType) ==
    IF tlvType = 241
    THEN IF o + 5 < Len(data)
         THEN LET epcBitLen == ReadU16BE(data, o + 4)
                  epcLen == epcBitLen \div 8
              IN IF o + 6 + epcLen <= Len(data)
                 THEN [tag EXCEPT !.epc = Some(toHex(slice(data, o + 6, o + 6 + epcLen)))]
                 ELSE tag
         ELSE tag
    ELSE IF tlvType = 13 /\ o + 4 + 12 <= Len(data)
    THEN [tag EXCEPT !.epc = Some(toHex(slice(data, o + 4, o + 4 + 12)))]
    ELSE tag

\* the bytes the two resynchronisation loops look at
TvScan == 16
TlvScan == 4
\* the first j in 1..window with offset + j < data.length and the top bit of
\* data[offset + j] set; 0 where there is none
FirstMsb(data, o, window) ==
    LET J == {j \in 1..window : IF o + j < Len(data) THEN Msb(data[o + j + 1]) ELSE FALSE}
    IN IF J = {} THEN 0 ELSE CHOOSE j \in J : \A k \in J : j <= k

\* the loop of parseTagReportData: offset, the tag so far, and whether the
\* loop was left by break or return
Resync(st, j) == IF j = 0 THEN [st EXCEPT !.done = TRUE] ELSE [st EXCEPT !.offset = @ + j]
iteration(data, st) ==
    LET o == st.offset
    IN IF Msb(data[o + 1])
       THEN LET tvType == data[o + 1] % 128
            IN IF tvAdvance(tvType) > 0
               THEN [st EXCEPT !.tag = tvField(data, o, @, tvType),
                               !.offset = o + tvAdvance(tvType)]
               ELSE Resync(st, FirstMsb(data, o, TvScan))
       ELSE IF o + 3 >= Len(data) THEN [st EXCEPT !.done = TRUE]
       ELSE LET tlvType == ReadU16BE(data, o) % 1024
                tlvLen == ReadU16BE(data, o + 2)
            IN IF tlvLen = 0 \/ o + tlvLen > Len(data)
               THEN Resync(st, FirstMsb(data, o, TlvScan))
               ELSE [st EXCEPT !.tag = tlvField(data, o, @, tlvType),
                               !.offset = o + tlvLen]

RECURSIVE loopFrom(_, _)
loopFrom(data, st) ==
    IF st.done \/ ~(st.offset < Len(data)) THEN st.tag
    ELSE loopFrom(data, iteration(data, st))
parseTagReportData(data) == loopFrom(data, [offset |-> 0, tag |-> NewTag, done |-> FALSE])

\* mutant: the configured antenna is used whatever their number
synthesiseAlways(cfg, tag) ==
    IF NoAntenna(tag) /\ Len(cfg.antennas) >= 1
    THEN [tag EXCEPT !.antenna = Some(cfg.antennas[1])]
    ELSE tag

\* if (!tag.antenna && this.config.antennas.length === 1)
synthesise(cfg, tag) ==
    IF NoAntenna(tag) /\ Len(cfg.antennas) = 1
    THEN [tag EXCEPT !.antenna = Some(cfg.antennas[1])]
    ELSE tag

\* the 'tag' events of one TagReportData parameter
tagEvents(cfg, tagData) ==
    LET tag == parseTagReportData(tagData)
    IN IF NoEpc(tag) THEN <<>> ELSE <<synthesise(cfg, tag)>>

RECURSIVE reportFrom(_, _, _)
reportFrom(cfg, data, offset) ==
    IF ~(offset + 4 <= Len(data)) THEN <<>>
    ELSE LET paramType == ReadU16BE(data, offset) % 1024
             paramLen == ReadU16BE(data, offset + 2)
         IN IF paramLen = 0 \/ paramLen > Len(data) - offset THEN <<>>
            ELSE (IF paramType = 240
                  THEN tagEvents(cfg, slice(data, offset + 4, offset + paramLen))
                  ELSE <<>>)
                     \o reportFrom(cfg, data, offset + paramLen)

\* the 'tag' events parseTagReport emits for a message, in their order
tagsOfReport(self, cfg, data) ==
    IF ~self.rospecStarted THEN <<>> ELSE reportFrom(cfg, data, 10)

\* mutant: the tags of a report come before those emitted earlier
emitTagsFirst(log, tagList) == tagList \o log

\* this.emit('tag', tag) for the tags of a report, in their order
emitTags(log, tagList) == log \o tagList

\* this, after the connect callback
Fresh == [socket |-> TRUE, connected |-> TRUE, messageId |-> Id(1),
          configStarted |-> FALSE, rospecStarted |-> FALSE, powerTable |-> <<>>,
          antennaPowerIndex |-> NoIndex, hopTableIds |-> <<>>, hopTableId |-> 1,
          threw |-> FALSE, written |-> <<>>, base |-> Id(0), events |-> <<>>,
          tags |-> 0]
\* the object while the ROSpec runs
Streaming == [Fresh EXCEPT !.configStarted = TRUE, !.rospecStarted = TRUE]

(***************************************************************************)
(* handleData, byte for byte: the frames of a remote side arrive in 'data' *)
(* events that cut the stream anywhere.                                    *)
(***************************************************************************)
\* a sender that builds its frames as sendMessage does
Peer == [socket |-> TRUE, connected |-> TRUE, threw |-> FALSE, messageId |-> Id(1),
         written |-> <<>>]
Encode(type, payload) == sendMessage(Peer, type, payload).written[1]

WireTypes == {0, 62, 300, 1023}
WirePayloads == {<<>>, <<7>>, <<1, 2, 3>>}
\* the length fields below 10 a remote side may declare
ShortLengths == {0, 5}
\* what the remote side sends: a frame of a type and a payload, with the length
\* field it declares
WireInputs ==
    [type : WireTypes, payload : WirePayloads, declared : {-1}]
        \cup [type : {62}, payload : {<<>>}, declared : ShortLengths]
WellFormed(i) == i.declared = -1
Wire(i) ==
    IF WellFormed(i) THEN Encode(i.type, i.payload)
    ELSE Header(i.type, i.declared, Id(1)) \o i.payload
Frames == [i \in 1..Len(sent) |-> Wire(sent[i])]

\* const msgLength = this.buffer.readUInt32BE(2)
msgLength(b) == ReadU32BE(b, 2)
\* mutant: the buffer is emptied once a message was taken off it
restAfterNone(b) == <<>>

\* this.buffer.slice(msgLength)
restAfter(b) == slice(b, msgLength(b), Len(b))

\* processMessage on the object while the ROSpec runs: the 'tag' events after it
processTags(log, cfg, message) ==
    IF Len(message) >= 2 /\ FrameType(message) = MSG.RO_ACCESS_REPORT
    THEN emitTags(log, tagsOfReport(Streaming, cfg, message))
    ELSE log

\* a 'data' event: this.buffer = Buffer.concat([this.buffer, data])
DataEvent ==
    /\ ~looping /\ stream # <<>>
    /\ \E n \in 1..Len(stream) :
         /\ cbuf' = cbuf \o SubSeq(stream, 1, n)
         /\ stream' = SubSeq(stream, n + 1, Len(stream))
    /\ looping' = TRUE
    /\ iters' = 0
    /\ UNCHANGED <<sent, dispatched, tagLog, fnVars, appVars, sessionVars>>

\* one iteration of the loop of handleData that reaches processMessage
LoopIter ==
    /\ looping /\ iters < MaxIters
    /\ Len(cbuf) >= 10 /\ ~(Len(cbuf) < msgLength(cbuf))
    /\ dispatched' = Append(dispatched, slice(cbuf, 0, msgLength(cbuf)))
    /\ tagLog' = processTags(tagLog, config, slice(cbuf, 0, msgLength(cbuf)))
    /\ cbuf' = restAfter(cbuf)
    /\ iters' = iters + 1
    /\ UNCHANGED <<sent, stream, looping, fnVars, appVars, sessionVars>>

\* the loop ends: fewer than 10 bytes, or fewer than the length field says
LoopExit ==
    /\ looping
    /\ IF Len(cbuf) < 10 THEN TRUE ELSE Len(cbuf) < msgLength(cbuf)
    /\ looping' = FALSE
    /\ UNCHANGED <<sent, stream, cbuf, dispatched, iters, tagLog, fnVars, appVars, sessionVars>>

InitCodec ==
    /\ Constructed({c \in Configs : c.enableReconnect})
    /\ sent \in UNION {[1..n -> WireInputs] : n \in 1..MaxFrames}
    /\ stream = Concat(Frames)
    /\ cbuf = <<>> /\ dispatched = <<>> /\ iters = 0 /\ looping = FALSE /\ tagLog = <<>>
    /\ fin = NoValue /\ fout = NoValue
    /\ AppIdle

NextCodec == DataEvent \/ LoopIter \/ LoopExit

SpecCodec == InitCodec /\ [][NextCodec]_vars

(***************************************************************************)
(* The capabilities parser and the power indices, on their own: applied to *)
(* an object on a connection that is up.                                   *)
(***************************************************************************)
\* TransmitPowerLevelTableEntry parameters of a capabilities response: one or
\* two, with distinct indices, in the order of the message
PowerEntries == [index : {1, 2, 3}, raw : {2000, 3000}]
RawTables ==
    {<<e>> : e \in PowerEntries}
        \cup {<<p[1], p[2]>> : p \in {q \in PowerEntries \X PowerEntries :
                                           q[1].index # q[2].index}}
HopLists == {<<>>, <<1>>, <<0, 5>>}
\* dBm values in hundredths
Targets == {-500, 0, 2450, 3000, 3050, 12000}
PowerMaps == UNION {[D -> Targets] : D \in {{}, {1}, {1, 2}}}
PowerConfigs == [antennas : {<<1>>, <<1, 2>>}, antennaPowerDbm : PowerMaps,
                 reconnectInterval : ReconnectIntervals, enableReconnect : {TRUE}]

\* the FrequencyHopTable IDs of the capabilities responses of one connection, in
\* the order of arrival: one response or two
HopIds == {<<>>, <<0>>, <<1>>, <<0, 5>>, <<7, 5>>}
HopResponses == {<<h>> : h \in HopIds} \cup {<<h[1], h[2]>> : h \in HopIds \X HopIds}
ROTables == {<<>>, <<[index |-> 2, raw |-> 2000], [index |-> 3, raw |-> 3000]>>}
ROConfigs == [antennas : {<<1>>, <<1, 2>>, <<2, 1>>, <<3, 1, 2>>},
              antennaPowerDbm : {<<>>, [a \in {1, 2} |-> 1000 + 1000 * a]},
              reconnectInterval : ReconnectIntervals, enableReconnect : {TRUE}]

FnInputs ==
    [fn : {"findClosestPowerIndex"}, power : RawTables, desiredDbm : {1500, 2000, 2500, 3500}]
        \cup [fn : {"computePowerIndices"}, power : {<<>>, <<[index |-> 1, raw |-> 2000]>>},
              cfg : PowerConfigs]
        \cup [fn : {"sendAddROSpec"}, hops : {<<>>, <<5>>}, cfg : PowerConfigs]
        \cup [fn : {"parseCapabilities"}, power : RawTables \cup {<<>>}, hops : HopLists]
        \cup [fn : {"buildROSpec"}, power : ROTables, hops : HopResponses, cfg : ROConfigs]

\* findClosestPowerIndex on the table parseCapabilities leaves
FindClosest ==
    /\ fout.fn = "none" /\ fin.fn = "findClosestPowerIndex"
    /\ LET table == parseCapabilities(Fresh, CapsMsg(0, fin.power, <<>>)).powerTable
       IN fout' = [fn |-> fin.fn, table |-> table,
                   index |-> findClosestPowerIndex(table, fin.desiredDbm)]
    /\ UNCHANGED <<fin, codecVars, appVars, sessionVars>>

\* computePowerIndices after parseCapabilities
ComputeIndices ==
    /\ fout.fn = "none" /\ fin.fn = "computePowerIndices"
    /\ LET parsed == parseCapabilities(Fresh, CapsMsg(0, fin.power, <<>>))
       IN fout' = [fn |-> fin.fn, table |-> parsed.powerTable,
                   antennaPowerIndex |-> computePowerIndices(parsed, fin.cfg).antennaPowerIndex]
    /\ UNCHANGED <<fin, codecVars, appVars, sessionVars>>

\* a capabilities response without a power table, then the DELETE_ROSPEC_RESPONSE:
\* the second frame written is ADD_ROSPEC
AddROSpecWithoutTable ==
    /\ fout.fn = "none" /\ fin.fn = "sendAddROSpec"
    /\ LET parsed == processMessage(Fresh, fin.cfg, CapsMsg(0, <<>>, fin.hops))
           added == processMessage(parsed, fin.cfg, Msg(MSG.DELETE_ROSPEC_RESPONSE, 0))
       IN fout' = [fn |-> fin.fn, frame |-> added.written[2]]
    /\ UNCHANGED <<fin, codecVars, appVars, sessionVars>>

\* the same GET_READER_CAPABILITIES_RESPONSE dispatched twice
ParseTwice ==
    /\ fout.fn = "none" /\ fin.fn = "parseCapabilities"
    /\ LET m == CapsMsg(0, fin.power, fin.hops)
           once == processMessage(Fresh, CHOOSE c \in PowerConfigs : TRUE, m)
           twice == processMessage(once, CHOOSE c \in PowerConfigs : TRUE, m)
       IN fout' = [fn |-> fin.fn, once |-> once, twice |-> twice]
    /\ UNCHANGED <<fin, codecVars, appVars, sessionVars>>

RECURSIVE DispatchAll(_, _, _)
DispatchAll(self, cfg, ms) ==
    IF ms = <<>> THEN self
    ELSE DispatchAll(processMessage(self, cfg, Head(ms)), cfg, Tail(ms))

\* the capabilities responses of a connection, then the DELETE_ROSPEC_RESPONSE:
\* the last frame written is ADD_ROSPEC
AddROSpec ==
    /\ fout.fn = "none" /\ fin.fn = "buildROSpec"
    /\ LET caps == [i \in 1..Len(fin.hops) |->
                       CapsMsg(0, IF i = 1 THEN fin.power ELSE <<>>, fin.hops[i])]
           parsed == DispatchAll(Fresh, fin.cfg, caps)
           added == processMessage(parsed, fin.cfg, Msg(MSG.DELETE_ROSPEC_RESPONSE, 0))
       IN fout' = [fn |-> fin.fn, antennaPowerIndex |-> parsed.antennaPowerIndex,
                   frame |-> added.written[Len(added.written)]]
    /\ UNCHANGED <<fin, codecVars, appVars, sessionVars>>

InitPower ==
    /\ Constructed({c \in Configs : c.enableReconnect})
    /\ sent = <<>> /\ stream = <<>> /\ cbuf = <<>> /\ dispatched = <<>>
    /\ iters = 0 /\ looping = FALSE /\ tagLog = <<>>
    /\ fin \in FnInputs
    /\ fout = NoValue
    /\ AppIdle

NextPower ==
    FindClosest \/ ComputeIndices \/ AddROSpecWithoutTable \/ ParseTwice \/ AddROSpec

SpecPower == InitPower /\ [][NextPower]_vars

(***************************************************************************)
(* The tag-report parser on its own: the loop of parseTagReportData, step  *)
(* by step, and parseTagReport on the report of one tag.                   *)
(***************************************************************************)
\* the bound of the tag records below, in parameters
MaxParams == 2

Zeros(n) == [i \in 1..n |-> 0]
EpcA == <<48, 10, 0, 1, 2, 3, 4, 5, 6, 7, 8, 9>>
EpcB == <<226, 0, 16, 255, 171, 205, 0, 0, 0, 0, 0, 1>>
\* what a reader puts into a TagReportData: the TV parameters of the switch, a
\* TV of a type it does not know (20) with 0, 15 and 16 bytes after it, EPCData
\* of 96, 12 and 0 bits, TLVs whose length is 0, 2 or past the end, a TV cut
\* short, a byte without the top bit
RecordParts ==
    { <<129, 0, 3>>, <<129, 0, 0>>, <<134, 216>>, <<135, 0, 1>>,
      <<136>> \o Zeros(8), <<137, 0, 0, 0, 0, 0, 0, 1, 2>>, <<138, 0, 2>>,
      <<141>> \o EpcA, <<142, 0, 0, 0, 1>>, <<143, 0, 1>>, <<144, 0, 1>>,
      <<148>>, <<148>> \o Zeros(15), <<148>> \o Zeros(16),
      <<0, 241, 0, 18, 0, 96>> \o EpcA, <<0, 241, 0, 8, 0, 12, 171, 192>>,
      <<0, 241, 0, 6, 0, 0>>,
      <<0, 5, 0, 0>>, <<0, 5, 0, 0, 0>>, <<0, 5, 0, 2>>, <<0, 5, 0, 200>>,
      <<129, 0>>, <<0>> }
Records == UNION {{Concat(ps) : ps \in [1..n -> RecordParts]} : n \in 1..MaxParams}

\* a tag as a reader reports it: the fields it has, each as Unset or Some(v)
Observations ==
    [epc : {Unset, Some(EpcA), Some(EpcB), Some(<<>>)},
     antenna : {Unset, Some(0), Some(3), Some(65535)},
     rssi : {Unset, Some(216), Some(40)},
     timestamp : {Unset, Some(<<0, 5, 65535, 258>>)},
     seenCount : {Unset, Some(2)}]
TV(tvType, value) == U8(128 + tvType) \o value
Opt(field, bytes) == IF field = Unset THEN <<>> ELSE bytes
\* the TagReportData of an observation: EPC-96 as TV 13 (EPCData of 0 bits for
\* an empty EPC), then TV 1, 6, 9 and 10
TagReportData(obs) ==
    tlv(240,
        Opt(obs.epc, IF obs.epc = Some(<<>>) THEN tlv(241, U16BE(0))
                     ELSE TV(13, obs.epc[1]))
        \o Opt(obs.antenna, TV(1, U16BE(obs.antenna[1])))
        \o Opt(obs.rssi, TV(6, U8(obs.rssi[1])))
        \o Opt(obs.timestamp, TV(9, Concat([k \in 1..4 |-> U16BE(obs.timestamp[1][k])])))
        \o Opt(obs.seenCount, TV(10, U16BE(obs.seenCount[1]))))
ReportConfigs == {c \in PowerConfigs : c.antennaPowerDbm = <<>>}
                     \cup [antennas : {<<4>>}, antennaPowerDbm : {<<>>},
                           reconnectInterval : ReconnectIntervals, enableReconnect : {TRUE}]
ReportInputs ==
    [fn : {"parseTagReportData"}, data : Records]
        \cup [fn : {"parseTagReport"}, obs : Observations, cfg : ReportConfigs]

\* parseTagReportData is called
TagLoopEnter ==
    /\ fout.fn = "none" /\ fin.fn = "parseTagReportData"
    /\ fout' = [fn |-> fin.fn, offset |-> 0, tag |-> NewTag, done |-> FALSE]
    /\ UNCHANGED <<fin, codecVars, appVars, sessionVars>>

\* one iteration of its loop
TagLoopIter ==
    /\ fout.fn = "parseTagReportData" /\ ~fout.done /\ fout.offset < Len(fin.data)
    /\ fout' = iteration(fin.data, fout)
    /\ UNCHANGED <<fin, codecVars, appVars, sessionVars>>

\* the loop condition fails: return tag
TagLoopExit ==
    /\ fout.fn = "parseTagReportData" /\ ~fout.done /\ ~(fout.offset < Len(fin.data))
    /\ fout' = [fout EXCEPT !.done = TRUE]
    /\ UNCHANGED <<fin, codecVars, appVars, sessionVars>>

\* parseTagReport on an RO_ACCESS_REPORT with one TagReportData
ParseReport ==
    /\ fout.fn = "none" /\ fin.fn = "parseTagReport"
    /\ LET data == Encode(MSG.RO_ACCESS_REPORT, TagReportData(fin.obs))
       IN fout' = [fn |-> fin.fn, emitted |-> tagsOfReport(Streaming, fin.cfg, data)]
    /\ UNCHANGED <<fin, codecVars, appVars, sessionVars>>

InitReport ==
    /\ Constructed({c \in Configs : c.enableReconnect})
    /\ sent = <<>> /\ stream = <<>> /\ cbuf = <<>> /\ dispatched = <<>>
    /\ iters = 0 /\ looping = FALSE /\ tagLog = <<>>
    /\ fin \in ReportInputs
    /\ fout = NoValue
    /\ AppIdle

NextReport == TagLoopEnter \/ TagLoopIter \/ TagLoopExit \/ ParseReport

SpecReport == InitReport /\ [][NextReport]_vars
\* the loop runs to its end: no callback interleaves with it
FairSpecReport == SpecReport /\ WF_vars(TagLoopEnter \/ TagLoopIter \/ TagLoopExit)

(***************************************************************************)
(* handleData on a stream of RO_ACCESS_REPORT messages while the ROSpec    *)
(* runs.                                                                   *)
(***************************************************************************)
TagA == [NewTag EXCEPT !.epc = Some(EpcA)]
TagB == [NewTag EXCEPT !.epc = Some(EpcB), !.antenna = Some(3)]
TagNoEpc == [NewTag EXCEPT !.rssi = Some(216)]
\* the tags of a report, in the order of its TagReportData parameters
TagLists == {<<TagA, TagB>>, <<TagB, TagA>>, <<TagNoEpc, TagA>>, <<TagB>>}
StreamInputs ==
    {[type |-> MSG.RO_ACCESS_REPORT, declared |-> -1, obs |-> os,
      payload |-> Concat([k \in 1..Len(os) |-> TagReportData(os[k])])] : os \in TagLists}
        \cup {[type |-> MSG.KEEPALIVE, declared |-> -1, obs |-> <<>>, payload |-> <<>>]}

InitStream ==
    /\ Constructed({c \in Configs : c.enableReconnect})
    /\ sent \in UNION {[1..n -> StreamInputs] : n \in 1..MaxFrames}
    /\ stream = Concat(Frames)
    /\ cbuf = <<>> /\ dispatched = <<>> /\ iters = 0 /\ looping = FALSE /\ tagLog = <<>>
    /\ fin = NoValue /\ fout = NoValue
    /\ AppIdle

SpecStream == InitStream /\ [][NextCodec]_vars

(***************************************************************************)
(* The buffer reads of parseCapabilities, checkResponse and                *)
(* handleErrorMessage.  A read of two bytes at offset o of a Buffer of     *)
(* length n throws a RangeError unless o + 2 <= n; nothing between the     *)
(* 'data' listener and these functions catches it.                         *)
(***************************************************************************)
CanRead(data, o, n) == o >= 0 /\ o + n <= Len(data)

\* a parameter as the remote side may send it: the length field is what the
\* sender declares
Declared(type, len, body) == U16BE(type) \o U16BE(len) \o body
FieldError == Declared(288, 8, U16BE(1) \o U16BE(2))
StatusParams ==
    {Declared(287, 4, <<>>), Declared(287, 5, U8(0)), Declared(287, 6, U16BE(0)),
     Declared(287, 8, U16BE(0) \o U16BE(0)), Declared(287, 8, U16BE(100) \o U16BE(0)),
     Declared(287, 7, U16BE(100) \o U8(0)),
     Declared(287, 16, U16BE(100) \o U16BE(0) \o FieldError),
     Declared(287, 12, U16BE(100) \o U16BE(0) \o U16BE(288) \o U16BE(8)),
     FieldError, Declared(288, 5, U8(0)), Declared(289, 8, U16BE(287) \o U16BE(100))}
StatusPayloads ==
    {<<>>} \cup StatusParams \cup {pq[1] \o pq[2] : pq \in StatusParams \X StatusParams}
CheckedResponses == {MSG.SET_READER_CONFIG_RESPONSE, MSG.DELETE_ROSPEC_RESPONSE,
                     MSG.ADD_ROSPEC_RESPONSE, MSG.ENABLE_ROSPEC_RESPONSE,
                     MSG.START_ROSPEC_RESPONSE}
ReadInputs ==
    [fn : {"processMessage"},
     data : {Encode(t, b) : t \in {MSG.GET_READER_CAPABILITIES_RESPONSE,
                                    MSG.ADD_ROSPEC_RESPONSE, MSG.ERROR_MESSAGE},
                            b \in StatusPayloads}]

\* the walk over the parameters after the LLRPStatus: the offset it ends at
RECURSIVE capabilitiesWalk(_, _)
capabilitiesWalk(data, offset) ==
    IF offset + 4 > Len(data) THEN offset
    ELSE LET paramLen == ReadU16BE(data, offset + 2)
         IN IF paramLen = 0 \/ paramLen > Len(data) - offset THEN offset
            ELSE capabilitiesWalk(data, offset + paramLen)

\* parseCapabilities on the bytes of a response without RegulatoryCapabilities
parseCapabilitiesBytes(data) ==
    IF 10 + 4 <= Len(data) /\ ReadU16BE(data, 10) % 1024 = 287
    THEN LET statusLen == ReadU16BE(data, 10 + 2)
         IN IF ~CanRead(data, 10 + 4, 2) THEN [threw |-> TRUE, result |-> FALSE]
            ELSE IF ReadU16BE(data, 10 + 4) # 0 THEN [threw |-> FALSE, result |-> FALSE]
            ELSE [threw |-> FALSE,
                  result |-> capabilitiesWalk(data, 10 + statusLen) >= 10]
    ELSE [threw |-> FALSE, result |-> capabilitiesWalk(data, 10) >= 10]

\* the loop over the FieldError and ParameterError nested in an LLRPStatus:
\* whether a read of it throws
RECURSIVE nestedThrows(_, _, _, _)
nestedThrows(data, nestedOffset, end, paramLen) ==
    IF nestedOffset + 4 > end THEN FALSE
    ELSE LET nestedType == ReadU16BE(data, nestedOffset) % 1024
             nestedLen == ReadU16BE(data, nestedOffset + 2)
         IN IF nestedLen = 0 \/ nestedLen > paramLen THEN FALSE
            ELSE IF /\ nestedType \in {288, 289} /\ nestedLen >= 8
                    /\ ~(CanRead(data, nestedOffset + 4, 2) /\ CanRead(data, nestedOffset + 6, 2))
            THEN TRUE
            ELSE nestedThrows(data, nestedOffset + nestedLen, end, paramLen)

\* whether the body of the LLRPStatus case of checkResponse throws
statusThrows(data, offset, paramLen) ==
    IF ~CanRead(data, offset + 4, 2) THEN TRUE
    ELSE IF ReadU16BE(data, offset + 4) = 0 \/ paramLen <= 6 THEN FALSE
    ELSE IF ~CanRead(data, offset + 6, 2) THEN TRUE
    ELSE nestedThrows(data, offset + 8 + ReadU16BE(data, offset + 6), offset + paramLen,
                      paramLen)

RECURSIVE checkResponseFrom(_, _, _)
checkResponseFrom(data, offset, success) ==
    IF offset + 4 > Len(data) THEN [threw |-> FALSE, result |-> success]
    ELSE LET paramType == ReadU16BE(data, offset) % 1024
             paramLen == ReadU16BE(data, offset + 2)
         IN IF paramLen = 0 \/ paramLen > Len(data) - offset
            THEN [threw |-> FALSE, result |-> success]
            ELSE IF paramType = 287 /\ statusThrows(data, offset, paramLen)
            THEN [threw |-> TRUE, result |-> FALSE]
            ELSE checkResponseFrom(data, offset + paramLen,
                                   success /\ ~(paramType = 287
                                                /\ ReadU16BE(data, offset + 4) # 0))

\* checkResponse on the bytes of a response
checkResponseBytes(data) == checkResponseFrom(data, 10, TRUE)

RECURSIVE handleErrorMessageFrom(_, _)
handleErrorMessageFrom(data, offset) ==
    IF ~(offset < Len(data) - 4) THEN [threw |-> FALSE, result |-> TRUE]
    ELSE LET paramType == ReadU16BE(data, offset) % 1024
             paramLen == ReadU16BE(data, offset + 2)
         IN IF paramLen = 0 \/ paramLen > Len(data) - offset
            THEN [threw |-> FALSE, result |-> TRUE]
            ELSE IF /\ paramType \in {287, 288, 289}
                    /\ ~(CanRead(data, offset + 4, 2) /\ CanRead(data, offset + 6, 2))
            THEN [threw |-> TRUE, result |-> FALSE]
            ELSE handleErrorMessageFrom(data, offset + paramLen)

\* handleErrorMessage on the bytes of an ERROR_MESSAGE
handleErrorMessageBytes(data) == handleErrorMessageFrom(data, 10)

\* processMessage on a GET_READER_CAPABILITIES_RESPONSE: parseCapabilities
ReadCapabilities ==
    /\ fout.fn = "none" /\ fin.fn = "processMessage"
    /\ FrameType(fin.data) = MSG.GET_READER_CAPABILITIES_RESPONSE
    /\ fout' = [fn |-> "parseCapabilities"] @@ parseCapabilitiesBytes(fin.data)
    /\ UNCHANGED <<fin, codecVars, appVars, sessionVars>>

\* processMessage on a response of the startup sequence: checkResponse
ReadResponse ==
    /\ fout.fn = "none" /\ fin.fn = "processMessage"
    /\ FrameType(fin.data) \in CheckedResponses
    /\ fout' = [fn |-> "checkResponse"] @@ checkResponseBytes(fin.data)
    /\ UNCHANGED <<fin, codecVars, appVars, sessionVars>>

\* processMessage on an ERROR_MESSAGE: handleErrorMessage
ReadErrorMessage ==
    /\ fout.fn = "none" /\ fin.fn = "processMessage"
    /\ FrameType(fin.data) = MSG.ERROR_MESSAGE
    /\ fout' = [fn |-> "handleErrorMessage"] @@ handleErrorMessageBytes(fin.data)
    /\ UNCHANGED <<fin, codecVars, appVars, sessionVars>>

InitReads ==
    /\ Constructed({c \in Configs : c.enableReconnect})
    /\ sent = <<>> /\ stream = <<>> /\ cbuf = <<>> /\ dispatched = <<>>
    /\ iters = 0 /\ looping = FALSE /\ tagLog = <<>>
    /\ fin \in ReadInputs
    /\ fout = NoValue
    /\ AppIdle

NextReads == ReadCapabilities \/ ReadResponse \/ ReadErrorMessage

SpecReads == InitReads /\ [][NextReads]_vars

(***************************************************************************)
(* ui-server.js: the reader the HTTP handlers start, stop and restart.     *)
(***************************************************************************)
MaxRequests == 3

\* Array.prototype.sort with (a, b) => a - b
RECURSIVE InsertAsc(_, _)
InsertAsc(sorted, n) ==
    IF sorted = <<>> THEN <<n>>
    ELSE IF n < Head(sorted) THEN <<n>> \o sorted
    ELSE <<Head(sorted)>> \o InsertAsc(Tail(sorted), n)
RECURSIVE SortAsc(_)
SortAsc(a) == IF a = <<>> THEN <<>> ELSE InsertAsc(SortAsc(SubSeq(a, 1, Len(a) - 1)), a[Len(a)])

\* the bodies of the /config requests, after the handler has read them: the
\* antennas (null, or the integers of 1..4 of the array) and the power
ConfigBodies == [antennas : {Unset, Some(<<>>), Some(<<1>>), Some(<<2, 1>>)},
                 powerDbm : {Unset, Some(20)}]

\* mutant: the configuration of a new reader always carries the default power
newConfigDefaultPower ==
    [antennas |-> antennaSelection,
     antennaPowerDbm |-> [ant \in {antennaSelection[i] : i \in 1..Len(antennaSelection)} |-> 30]]

\* the configuration startReader builds
newConfig ==
    [antennas |-> antennaSelection,
     antennaPowerDbm |-> [ant \in {antennaSelection[i] : i \in 1..Len(antennaSelection)} |->
                              powerDbm]]

\* startReader(): new LLRPReader(config), reader.connect()
startReader ==
    IF running THEN UNCHANGED <<reader, running, readers>>
    ELSE /\ readers' = Append(readers, [config |-> newConfig, state |-> "connecting"])
         /\ reader' = Len(readers) + 1
         /\ running' = TRUE

\* stopReader(): reader.disconnect()
stopReader ==
    IF ~running THEN UNCHANGED <<reader, running, readers>>
    ELSE /\ readers' = IF reader # 0 THEN [readers EXCEPT ![reader].state = "disconnected"]
                       ELSE readers
         /\ reader' = 0
         /\ running' = FALSE

\* the handler of /start
UiStart ==
    /\ Len(requests) < MaxRequests
    /\ requests' = Append(requests, [path |-> "/start"])
    /\ startReader
    /\ UNCHANGED <<antennaSelection, powerDbm, restartTimers>>
    /\ UNCHANGED <<miniVars, codecVars, fnVars, sessionVars>>

\* the handler of /stop
UiStop ==
    /\ Len(requests) < MaxRequests
    /\ requests' = Append(requests, [path |-> "/stop"])
    /\ stopReader
    /\ UNCHANGED <<antennaSelection, powerDbm, restartTimers>>
    /\ UNCHANGED <<miniVars, codecVars, fnVars, sessionVars>>

\* updateConfig(nextAntennas, nextPowerDbm)
updateConfig(nextAntennas, nextPowerDbm) ==
    LET sorted == IF nextAntennas # Unset THEN SortAsc(nextAntennas[1]) ELSE <<>>
        newAntennas == nextAntennas # Unset /\ Len(nextAntennas[1]) > 0
                           /\ sorted # SortAsc(antennaSelection)
        newPower == nextPowerDbm # Unset /\ nextPowerDbm[1] # powerDbm
        changed == newAntennas \/ newPower
    IN /\ antennaSelection' = IF newAntennas THEN sorted ELSE antennaSelection
       /\ powerDbm' = IF newPower THEN nextPowerDbm[1] ELSE powerDbm
       /\ IF running /\ changed
          THEN stopReader /\ restartTimers' = restartTimers + 1
          ELSE UNCHANGED <<reader, running, readers, restartTimers>>

\* the handler of /config
UiConfig ==
    /\ Len(requests) < MaxRequests
    /\ \E body \in ConfigBodies :
          /\ requests' = Append(requests, [path |-> "/config", body |-> body])
          /\ updateConfig(body.antennas, body.powerDbm)
    /\ UNCHANGED <<miniVars, codecVars, fnVars, sessionVars>>

\* the 500 ms timer of updateConfig: startReader()
RestartTimerFire ==
    /\ restartTimers > 0
    /\ restartTimers' = restartTimers - 1
    /\ startReader
    /\ UNCHANGED <<antennaSelection, powerDbm, requests>>
    /\ UNCHANGED <<miniVars, codecVars, fnVars, sessionVars>>

InitApp == Constructed({c \in Configs : c.enableReconnect}) /\ UnitIdle

NextUi == UiStart \/ UiStop \/ UiConfig \/ RestartTimerFire

SpecUi == InitApp /\ [][NextUi]_vars

\* the event loop runs the callback of a timer that has expired
FairSpecUi == SpecUi /\ WF_vars(RestartTimerFire)

(***************************************************************************)
(* minimal.js: the startup sequence of the test script.                    *)
(***************************************************************************)
MaxHandled == 4

\* the messages handle() tells apart: the type, the LLRPStatus code that
\* handle reads of an ADD_ROSPEC_RESPONSE, and the result of
\* parseMaxTxPowerIndex on a GET_READER_CAPABILITIES_RESPONSE
MiniMsg(type, status, maxIdx) == [type |-> type, status |-> status, maxIdx |-> maxIdx]
MiniInputs ==
    {MiniMsg(t, 0, Unset) : t \in {63, 31, 34, 32, 61, 62, 100}}
        \cup {MiniMsg(11, 0, Unset), MiniMsg(11, 0, Some(5))}
        \cup {MiniMsg(30, 0, Unset), MiniMsg(30, 100, Unset)}

\* startSequence(): the types written after it
startSequence(types) == Append(types, 21)

\* mutant: the capabilities response forgets the notification that came first
miniCapabilitiesNoReplay(m) ==
    /\ txPowerIndex' = IF m.maxIdx # Unset THEN m.maxIdx[1] ELSE txPowerIndex
    /\ gotCaps' = TRUE
    /\ pendingStart' = FALSE
    /\ sentTypes' = sentTypes

\* handle() on a GET_READER_CAPABILITIES_RESPONSE
miniCapabilities(m) ==
    /\ txPowerIndex' = IF m.maxIdx # Unset THEN m.maxIdx[1] ELSE txPowerIndex
    /\ gotCaps' = TRUE
    /\ pendingStart' = FALSE
    /\ sentTypes' = IF pendingStart THEN startSequence(sentTypes) ELSE sentTypes

\* handle() on a READER_EVENT_NOTIFICATION
miniNotification ==
    /\ pendingStart' = (pendingStart \/ ~gotCaps)
    /\ sentTypes' = IF gotCaps THEN startSequence(sentTypes) ELSE sentTypes
    /\ UNCHANGED <<gotCaps, txPowerIndex>>

\* handle() on the other types: the request that follows, if one does
miniAnswer(m) ==
    /\ sentTypes' = CASE m.type = 31 -> Append(sentTypes, 20)
                       [] m.type = 30 /\ m.status = 0 -> Append(sentTypes, 24)
                       [] m.type = 34 -> Append(sentTypes, 22)
                       [] m.type = 62 -> Append(sentTypes, 72)
                       [] OTHER -> sentTypes
    /\ UNCHANGED <<gotCaps, pendingStart, txPowerIndex>>

\* the callback of socket.connect: ENABLE_EVENTS_AND_REPORTS, then
\* GET_READER_CAPABILITIES
MiniConnected ==
    /\ sentTypes = <<>>
    /\ sentTypes' = <<64, 1>>
    /\ UNCHANGED <<gotCaps, pendingStart, txPowerIndex, handledTypes>>
    /\ UNCHANGED <<uiVars, codecVars, fnVars, sessionVars>>

\* the 'data' listener has a complete message: handle(data)
MiniHandle ==
    /\ sentTypes # <<>> /\ Len(handledTypes) < MaxHandled
    /\ \E m \in MiniInputs :
          /\ handledTypes' = Append(handledTypes, m.type)
          /\ IF m.type = 63 THEN miniNotification
             ELSE IF m.type = 11 THEN miniCapabilities(m)
             ELSE miniAnswer(m)
    /\ UNCHANGED <<uiVars, codecVars, fnVars, sessionVars>>

NextMini == MiniConnected \/ MiniHandle

SpecMini == InitApp /\ [][NextMini]_vars

(***************************************************************************)
(* Properties.                                                             *)
(***************************************************************************)
InEvents(e) == \E i \in 1..Len(events) : events[i] = e
\* the frames the step appends to the log of the current socket
NewFrames == IF Len(written') > Len(written)
             THEN {written'[i] : i \in (Len(written) + 1)..Len(written')} ELSE {}
StartupRequests == {MSG.ADD_ROSPEC, MSG.ENABLE_ROSPEC, MSG.START_ROSPEC}

\* C1: a report dispatched while rospecStarted is false emits no 'tag' event and
\* one dispatched while it is true emits one per record with an EPC; on every
\* connection no 'tag' event precedes a START_ROSPEC_RESPONSE with status 0.
C1_BufferedTagGuard ==
    /\ [][rx'.type = MSG.RO_ACCESS_REPORT =>
            tags' = tags + (IF rospecStarted THEN CountEpc(rx'.records) ELSE 0)]_vars
    /\ [](tags > 0 => startOk)
    /\ [](rospecStarted /\ sockState = "open" => startOk)

\* a report was dropped on a connection opened by a reconnect
C1_Witness ==
    /\ conns = 2 /\ sockState = "open" /\ rx.type = MSG.RO_ACCESS_REPORT
    /\ ~rospecStarted /\ tags = 0 /\ Len(written) >= 2

\* C2: once a DELETE_ROSPEC_RESPONSE, ADD_ROSPEC_RESPONSE or ENABLE_ROSPEC_RESPONSE
\* with a non-zero status was dispatched, no ADD_ROSPEC, ENABLE_ROSPEC or
\* START_ROSPEC is written on that connection.
C2_StatusAbortsStartup ==
    [][errTypes' \cap {31, 30, 34} # {} =>
         \A f \in NewFrames : FrameType(f) \notin StartupRequests]_vars

\* C3: after a startup response with a non-zero status, with reconnect enabled
\* and no disconnect(), the reader eventually calls connect() again (which opens
\* a connection on which no such response was dispatched yet).
C3_StatusLeadsToReconnect ==
    (errTypes # {} /\ config.enableReconnect /\ ~isShuttingDown)
        ~> (errTypes = {} \/ isShuttingDown)

StartupOrder == <<64, 1, 21, 20, 24, 22>>
IsPrefix(a, b) == Len(a) <= Len(b) /\ a = SubSeq(b, 1, Len(a))
\* the responses the remote reader has sent on this connection, and those of
\* them that were dispatched (the last one may still lie in this.buffer)
Answered == Cardinality({i \in 1..served : ResponseType(FrameType(written[i])) # 0})
Processed == Answered - Len(buffer)

Position(e) == CHOOSE i \in 1..Len(events) : events[i] = e /\ \A j \in 1..(i - 1) : events[j] # e

\* C5: once 'connected' was emitted, 'ready' is eventually emitted with
\* rospecStarted set, unless the reader deviates or disconnect() is called; and
\* 'ready' is emitted only after 'connected' and only when a
\* START_ROSPEC_RESPONSE with status 0 was dispatched on the connection.
C5_ConnectedThenReady ==
    /\ (InEvents("connected") /\ ~deviated /\ ~isShuttingDown)
           ~> ((InEvents("ready") /\ rospecStarted) \/ deviated \/ isShuttingDown)
    /\ [](InEvents("ready") =>
            /\ InEvents("connected") /\ Position("connected") < Position("ready")
            /\ startOk /\ rospecStarted)

\* 'ready' was emitted on a connection opened by a reconnect
C5_Witness ==
    /\ conns = 2 /\ ~deviated /\ ~isShuttingDown
    /\ events = <<"connected", "ready">> /\ rospecStarted

\* the request a response answers, 0 for a message that answers none
RequestOf(t) ==
    CASE t = 11 -> 1 [] t = 31 -> 21 [] t = 30 -> 20 [] t = 34 -> 24 [] t = 32 -> 22
      [] OTHER -> 0
\* a response the state of the connection does not expect: a
\* SET_READER_CONFIG_RESPONSE, or the response to a request not written yet
Unexpected(m, w) ==
    \/ m.type = MSG.SET_READER_CONFIG_RESPONSE
    \/ /\ m.type \in {31, 30, 34}
       /\ \A i \in 1..Len(w) : FrameType(w[i]) # RequestOf(m.type)

\* C6: the dispatch of a response the connection does not expect writes no frame.
C6_UnexpectedSendsNothing ==
    [][Unexpected(rx', written) => written' = written]_vars

\* C7: the dispatch of a READER_EVENT_NOTIFICATION writes no frame, takes no
\* message ID and leaves rospecStarted, powerTable, hopTableIds and
\* antennaPowerIndex as they were.
C7_NotificationIsInert ==
    [][rx'.type = MSG.READER_EVENT_NOTIFICATION =>
         UNCHANGED <<written, messageId, rospecStarted, powerTable, hopTableIds,
                     antennaPowerIndex>>]_vars

\* a notification was dispatched after the capabilities response, on a reconnect
C7_Witness ==
    /\ rx.type = MSG.READER_EVENT_NOTIFICATION /\ configStarted /\ conns = 2
    /\ powerTable # <<>> /\ Types(written) = <<64, 1, 21>>

\* C8: the dispatch of a KEEPALIVE writes exactly one frame, a KEEPALIVE_ACK of
\* 10 bytes with length field 10 and the message ID the counter held, and the
\* counter moves on by one; a KEEPALIVE_ACK is written by no other step.
C8_KeepaliveAck ==
    [][/\ rx'.type = MSG.KEEPALIVE =>
            /\ Len(written') = Len(written) + 1
            /\ SubSeq(written', 1, Len(written)) = written
            /\ LET f == written'[Len(written')]
               IN /\ FrameType(f) = MSG.KEEPALIVE_ACK
                  /\ Len(f) = 10 /\ FrameLen(f) = 10
                  /\ FrameId(f) = messageId
            /\ messageId' = Inc(messageId)
       /\ \A f \in NewFrames : FrameType(f) = MSG.KEEPALIVE_ACK => rx'.type = MSG.KEEPALIVE
      ]_vars

\* the message ID k past n
RECURSIVE Plus(_, _)
Plus(n, k) == IF k = 0 THEN n ELSE Plus(Inc(n), k - 1)

\* C9: the k-th frame written on the connection carries message ID k, and the
\* counter holds the number of frames written plus one: no sendMessage takes an
\* ID without writing a frame.
C9_IdIsPosition ==
    /\ \A k \in 1..Len(written) : FrameId(written[k]) = Plus(base, k)
    /\ messageId = Plus(base, Len(written) + 1)

\* C10: every sendMessage that takes a message ID writes a frame that carries the
\* ID modulo 2^32.
C10_IdWraps ==
    [][messageId' = Inc(messageId) =>
         /\ ~threw'
         /\ Len(written') = Len(written) + 1
         /\ FrameId(written'[Len(written')]) = <<messageId[1] % U16, messageId[2]>>]_vars

\* the per-session state as the constructor leaves it
SessionIsFresh ==
    /\ powerTable = <<>> /\ hopTableIds = <<>> /\ hopTableId = 1
    /\ antennaPowerIndex = NoIndex /\ ~rospecStarted /\ buffer = <<>>
    /\ messageId = Id(1)

\* C11: the step that opens the socket of a reconnect attempt leaves the
\* per-session state reset, and it stays so until the TCP connection is up.
C11_ResetBeforeReconnect ==
    /\ [][conns >= 1 /\ conns' = conns + 1 => SessionIsFresh']_vars
    /\ [](conns >= 2 /\ sockState = "connecting" => SessionIsFresh)

\* the socket of a reconnect attempt was opened
C11_Witness ==
    /\ conns = 2 /\ sockState = "connecting" /\ SessionIsFresh /\ written = <<>>

\* C12: a socket is opened only while disconnect() was not called and, past the
\* connect() of the consumer, only with enableReconnect set; no reconnect timer
\* is pending once disconnect() was called.
C12_NoConnectAfterDisconnect ==
    /\ [][conns' # conns =>
            ~isShuttingDown /\ (started => config.enableReconnect)]_vars
    /\ [](isShuttingDown => ~reconnectTimer)

\* disconnect() was called while the reconnect timer was pending: the 'close'
\* handler had emitted 'disconnect' and armed it
C12_Witness ==
    /\ isShuttingDown /\ config.enableReconnect /\ InEvents("disconnect")
    /\ sockState = "closed" /\ ~reconnectTimer /\ conns = 1

AllWellFormed == \A i \in 1..Len(sent) : WellFormed(sent[i])

\* C13: when the stream is a concatenation of well-formed frames, the messages
\* dispatched are the first frames of the stream, each once, in order and with
\* exactly its bytes; no byte is lost between the messages dispatched, the
\* buffer and what is still to come; and once handleData has returned, the
\* buffer holds only an incomplete frame, however the stream was cut.
C13_ChunkingIndependent ==
    AllWellFormed =>
        /\ IsPrefix(dispatched, Frames)
        /\ Concat(dispatched) \o cbuf \o stream = Concat(Frames)
        /\ (~looping /\ cbuf # <<>>) => Len(cbuf) < Len(Frames[Len(dispatched) + 1])

\* after a 'data' event the first frame was dispatched and the header of the
\* second one lies in the buffer, its payload still to come
C13_Witness ==
    /\ AllWellFormed /\ Len(sent) = 2 /\ Len(dispatched) = 1 /\ ~looping
    /\ Len(cbuf) >= 10 /\ stream # <<>>

\* C14: an iteration that finds a length field below 10 at the head of the
\* buffer dispatches no message, and the loop goes no further.
C14_ShortLengthIsError ==
    [][(iters' = iters + 1 /\ msgLength(cbuf) < 10) =>
          dispatched' = dispatched /\ ~looping']_vars

\* C15: every iteration of the loop takes bytes off the buffer, so that a call
\* of handleData makes at most as many iterations as the buffer has bytes.
C15_LoopConsumes ==
    [][iters' = iters + 1 => Len(cbuf') < Len(cbuf)]_vars

\* C16: a frame built by sendMessage for a type in 0..1023 has byte 0 =
\* 0x04 | ((type >> 8) & 0x03), byte 1 = type & 0xFF and length field 10 +
\* len(payload), and the message handleData takes off the stream decodes to the
\* type and the payload it was built from.
C16_FrameRoundTrip ==
    AllWellFormed =>
        \A k \in 1..Len(dispatched) :
            LET i == sent[k]
                m == dispatched[k]
            IN /\ m[1] = 4 + ((i.type \div 256) % 4)
               /\ m[2] = i.type % 256
               /\ msgLength(m) = 10 + Len(i.payload)
               /\ FrameType(m) = i.type
               /\ FramePayload(m) = i.payload

\* frames of a type above 255 with a payload were sent and dispatched
C16_Witness ==
    /\ AllWellFormed /\ Len(dispatched) = 2
    /\ sent[1].type = 1023 /\ sent[2].type = 300 /\ sent[2].payload = <<1, 2, 3>>

\* the dBm value configured for an antenna, 30 dBm where none is configured
TargetDbm(cfg, ant) ==
    IF ant \in DOMAIN cfg.antennaPowerDbm THEN cfg.antennaPowerDbm[ant]
    ELSE DefaultDbm * 100

\* C17: the index returned for a non-empty table is that of an entry at minimal
\* distance from the target, and the lowest index of the entries at that
\* distance.
C17_ClosestLowestIndex ==
    fout.fn = "findClosestPowerIndex" =>
        LET T == fout.table
            d(e) == Abs(e.powerDbm - fin.desiredDbm)
            best == {i \in 1..Len(T) : \A j \in 1..Len(T) : d(T[i]) <= d(T[j])}
        IN /\ \E i \in best : T[i].index = fout.index
           /\ \A i \in best : fout.index <= T[i].index

\* the TransmitPower field of the k-th AntennaConfiguration of an ADD_ROSPEC
\* frame for n antennas
TransmitPowerOf(frame, n, k) == ReadU16BE(frame, 74 + 2 * n + 16 * (k - 1))

\* C18: without a power table, the TransmitPower that ADD_ROSPEC carries for
\* each configured antenna is clamp(round(target dBm), 1, 100).
C18_FallbackIndex ==
    fout.fn = "sendAddROSpec" =>
        \A k \in 1..Len(fin.cfg.antennas) :
            LET target == TargetDbm(fin.cfg, fin.cfg.antennas[k])
                carried == TransmitPowerOf(fout.frame, Len(fin.cfg.antennas), k)
            IN /\ carried = Min(Max(1, RoundHundredths(target)), 100)
               /\ carried \in 1..100

\* C19: computePowerIndices defines antennaPowerIndex for every configured
\* antenna, from the dBm value configured for it (0 included) and from 30 dBm
\* only where none is configured.
C19_ConfiguredPowerUsed ==
    fout.fn = "computePowerIndices" =>
        \A k \in 1..Len(fin.cfg.antennas) :
            LET ant == fin.cfg.antennas[k]
            IN /\ ant \in DOMAIN fout.antennaPowerIndex
               /\ fout.antennaPowerIndex[ant]
                      = findClosestPowerIndex(fout.table, TargetDbm(fin.cfg, ant))

\* C20: a capabilities response dispatched twice leaves powerTable and
\* hopTableIds as they were after the first time.
C20_ParseIdempotent ==
    fout.fn = "parseCapabilities" =>
        /\ fout.twice.powerTable = fout.once.powerTable
        /\ fout.twice.hopTableIds = fout.once.hopTableIds

Sorted(T) == \A i, j \in 1..Len(T) : i < j => T[i].powerDbm <= T[j].powerDbm
UniqueIndices(T) == \A i, j \in 1..Len(T) : i # j => T[i].index # T[j].index

\* C21: after every dispatch of a capabilities response, the first on a
\* connection or a later one, powerTable is sorted ascending by powerDbm and no
\* two of its entries have the same index.
C21_TableSortedUnique ==
    fout.fn = "parseCapabilities" =>
        /\ Sorted(fout.once.powerTable) /\ UniqueIndices(fout.once.powerTable)
        /\ Sorted(fout.twice.powerTable) /\ UniqueIndices(fout.twice.powerTable)

\* the parameters a buffer of TLVs holds, by their length fields
RECURSIVE Params(_)
Params(b) ==
    IF Len(b) < 4 THEN <<>>
    ELSE LET len == ReadU16BE(b, 2)
         IN IF len < 4 \/ len > Len(b) THEN <<>>
            ELSE <<[type |-> ReadU16BE(b, 0), length |-> len, value |-> slice(b, 4, len)]>>
                     \o Params(slice(b, len, Len(b)))
RECURSIVE TotalLength(_)
TotalLength(ps) == IF ps = <<>> THEN 0 ELSE Head(ps).length + TotalLength(Tail(ps))
\* the parameters fill the buffer exactly
Fills(b) == TotalLength(Params(b)) = Len(b)
OfType(ps, t) == SelectSeq(ps, LAMBDA p : p.type = t)
Skip(b, n) == slice(b, n, Len(b))

\* the parameters of the ROSpec an ADD_ROSPEC frame carries
ROSpecOf(frame) == Params(FramePayload(frame))[1]
ROSpecBody(frame) == Skip(ROSpecOf(frame).value, 6)
ROBoundaryOf(frame) == OfType(Params(ROSpecBody(frame)), 178)[1]
AISpecOf(frame) == OfType(Params(ROSpecBody(frame)), 183)[1]
ROReportSpecOf(frame) == OfType(Params(ROSpecBody(frame)), 237)[1]
AntennaCount(frame) == ReadU16BE(AISpecOf(frame).value, 0)
AntennaIDs(frame) ==
    [k \in 1..AntennaCount(frame) |-> ReadU16BE(AISpecOf(frame).value, 2 * k)]
AISpecBody(frame) == Skip(AISpecOf(frame).value, 2 + 2 * AntennaCount(frame))
InventoryParameterSpecOf(frame) == OfType(Params(AISpecBody(frame)), 186)[1]
AntennaConfigurations(frame) ==
    OfType(Params(Skip(InventoryParameterSpecOf(frame).value, 3)), 222)
RFTransmitters(frame) ==
    LET confs == AntennaConfigurations(frame)
    IN [k \in 1..Len(confs) |-> OfType(Params(Skip(confs[k].value, 2)), 224)[1]]

\* the first ID other than 0 of the hop tables of the responses, 1 without one
RECURSIVE Flat(_)
Flat(ss) == IF ss = <<>> THEN <<>> ELSE Head(ss) \o Flat(Tail(ss))
Advertised(ids) ==
    LET at == {i \in 1..Len(ids) : ids[i] # 0}
    IN IF at = {} THEN 1 ELSE ids[CHOOSE i \in at : \A j \in at : i <= j]

C23_ROSpecForZebra ==
    fout.fn = "buildROSpec" =>
        LET confs == AntennaConfigurations(fout.frame)
            selectors == OfType(Params(Skip(ROReportSpecOf(fout.frame).value, 3)), 238)
            roStop == OfType(Params(ROBoundaryOf(fout.frame).value), 182)
            aiStop == OfType(Params(AISpecBody(fout.frame)), 184)
        IN /\ Len(confs) > 0
           /\ \A k \in 1..Len(confs) :
                 OfType(Params(Skip(confs[k].value, 2)), 330) = <<>>
           /\ Len(selectors) = 1 /\ selectors[1].value = <<0, 0>>
           /\ Len(roStop) = 1 /\ roStop[1].length = 9 /\ Len(roStop[1].value) = 5
           /\ Len(aiStop) = 1 /\ aiStop[1].length = 9 /\ Len(aiStop[1].value) = 5

C23_Witness ==
    /\ fout.fn = "buildROSpec" /\ fin.cfg.antennas = <<1, 2>>
    /\ Len(AntennaConfigurations(fout.frame)) = 2
    /\ OfType(Params(AISpecBody(fout.frame)), 184)[1].value = <<0, 0, 0, 0, 0>>

\* C24: for N configured antennas the AISpec carries AntennaCount N and the N
\* antenna IDs in the order of the configuration; the InventoryParameterSpec
\* holds one AntennaConfiguration per antenna, in the same order, whose
\* TransmitPower is antennaPowerIndex of that antenna; the parameters of every
\* container fill it exactly, and the length of the ROSpec is that of the buffer.
C24_AntennasInOrder ==
    fout.fn = "buildROSpec" =>
        LET ants == fin.cfg.antennas
            confs == AntennaConfigurations(fout.frame)
            rf == RFTransmitters(fout.frame)
        IN /\ AntennaCount(fout.frame) = Len(ants)
           /\ AntennaIDs(fout.frame) = ants
           /\ Len(confs) = Len(ants)
           /\ \A k \in 1..Len(confs) :
                 /\ ReadU16BE(confs[k].value, 0) = ants[k]
                 /\ ReadU16BE(rf[k].value, 4) = fout.antennaPowerIndex[ants[k]]
                 /\ Fills(Skip(confs[k].value, 2))
                 /\ Len(rf[k].value) = 6
           /\ ROSpecOf(fout.frame).length = Len(FramePayload(fout.frame))
           /\ Fills(ROSpecBody(fout.frame))
           /\ Fills(ROBoundaryOf(fout.frame).value)
           /\ Fills(AISpecBody(fout.frame))
           /\ Fills(Skip(InventoryParameterSpecOf(fout.frame).value, 3))
           /\ Fills(Skip(ROReportSpecOf(fout.frame).value, 3))

C24_Witness ==
    /\ fout.fn = "buildROSpec" /\ fin.cfg.antennas = <<3, 1, 2>>
    /\ fin.power # <<>> /\ fin.cfg.antennaPowerDbm # <<>>
    /\ AntennaIDs(fout.frame) = <<3, 1, 2>>
    /\ [k \in 1..3 |-> ReadU16BE(RFTransmitters(fout.frame)[k].value, 4)] = <<3, 2, 3>>

\* the bytes a string of hexadecimal digits stands for
HexValue(c) == CHOOSE k \in 0..15 : HexDigits[k + 1] = c
FromHex(h) == [i \in 1..Len(h) \div 2 |-> 16 * HexValue(h[2 * i - 1]) + HexValue(h[2 * i])]
Signed8(byte) == IF byte >= 128 THEN byte - 256 ELSE byte
HasEpc(obs) == obs.epc # Unset /\ obs.epc # Some(<<>>)
\* the fields of an emitted tag other than its antenna, against the record
FieldsCarried(tag, obs) ==
    /\ tag.epc # Unset /\ FromHex(tag.epc[1]) = obs.epc[1]
    /\ tag.rssi = (IF obs.rssi = Unset THEN Unset ELSE Some(Signed8(obs.rssi[1])))
    /\ tag.timestamp = obs.timestamp
    /\ tag.seenCount = obs.seenCount

\* C25, as stated: a 'tag' event is emitted for a TagReportData exactly when
\* the record yields a non-empty EPC; the event carries antenna (TV 1), rssi
\* (TV 6, signed), timestamp (TV 9), seenCount (TV 10) and epc (TV 13) of the
\* record, and a field whose parameter is absent is unset.
C25_TagFromRecord ==
    fout.fn = "parseTagReport" =>
        /\ Len(fout.emitted) = (IF HasEpc(fin.obs) THEN 1 ELSE 0)
        /\ HasEpc(fin.obs) =>
              /\ FieldsCarried(fout.emitted[1], fin.obs)
              /\ fout.emitted[1].antenna = fin.obs.antenna

\* the antenna of the event for a record: that of TV 1, and the configured one
\* where TV 1 is absent or 0 and exactly one antenna is configured
AntennaRule(obs, cfg) ==
    IF (obs.antenna = Unset \/ obs.antenna = Some(0)) /\ Len(cfg.antennas) = 1
    THEN Some(cfg.antennas[1])
    ELSE obs.antenna

\* C25, amended: as stated, but the antenna is that of TV 1 only where TV 1 is
\* present with a value other than 0 or the number of configured antennas is
\* not one; otherwise it is the configured antenna.
C25_TagFromRecordAmended ==
    fout.fn = "parseTagReport" =>
        /\ Len(fout.emitted) = (IF HasEpc(fin.obs) THEN 1 ELSE 0)
        /\ HasEpc(fin.obs) =>
              /\ FieldsCarried(fout.emitted[1], fin.obs)
              /\ fout.emitted[1].antenna = AntennaRule(fin.obs, fin.cfg)

C25_Witness ==
    /\ fout.fn = "parseTagReport"
    /\ fin.obs = [epc |-> Some(EpcA), antenna |-> Some(3), rssi |-> Some(216),
                  timestamp |-> Unset, seenCount |-> Unset]
    /\ fout.emitted = <<[epc |-> Some(<<"3", "0", "0", "A", "0", "0", "0", "1", "0", "2",
                                       "0", "3", "0", "4", "0", "5", "0", "6", "0", "7",
                                       "0", "8", "0", "9">>),
                         antenna |-> Some(3), rssi |-> Some(-40),
                         timestamp |-> Unset, seenCount |-> Unset]>>

\* C26, as stated: the antenna of an emitted tag is the value of TV 1 whenever
\* TV 1 is present, whatever the value; it is the configured antenna when TV 1
\* is absent and exactly one antenna is configured, and unset when TV 1 is
\* absent and more than one is configured.
C26_AntennaSynthesis ==
    fout.fn = "parseTagReport" /\ HasEpc(fin.obs) =>
        LET antenna == fout.emitted[1].antenna
        IN /\ fin.obs.antenna # Unset => antenna = fin.obs.antenna
           /\ fin.obs.antenna = Unset /\ Len(fin.cfg.antennas) = 1
                 => antenna = Some(fin.cfg.antennas[1])
           /\ fin.obs.antenna = Unset /\ Len(fin.cfg.antennas) > 1 => antenna = Unset

\* C26, amended: the same for every value of TV 1 other than 0; a TV 1 of 0
\* counts as absent when exactly one antenna is configured, and is kept
\* otherwise.
C26_AntennaSynthesisAmended ==
    fout.fn = "parseTagReport" /\ HasEpc(fin.obs) =>
        LET antenna == fout.emitted[1].antenna
            absent == fin.obs.antenna = Unset
            zero == fin.obs.antenna = Some(0)
        IN /\ ~absent /\ ~zero => antenna = fin.obs.antenna
           /\ (absent \/ zero) /\ Len(fin.cfg.antennas) = 1
                 => antenna = Some(fin.cfg.antennas[1])
           /\ absent /\ Len(fin.cfg.antennas) > 1 => antenna = Unset
           /\ zero /\ Len(fin.cfg.antennas) > 1 => antenna = Some(0)

C26_Witness ==
    /\ fout.fn = "parseTagReport" /\ HasEpc(fin.obs)
    /\ fin.obs.antenna = Some(0) /\ fin.cfg.antennas = <<4>>
    /\ fout.emitted[1].antenna = Some(4)

\* the value bytes of the TV parameters
TvValueLen == (1 :> 2) @@ (6 :> 1) @@ (7 :> 2) @@ (8 :> 8) @@ (9 :> 8) @@ (10 :> 2)
                  @@ (13 :> 12) @@ (14 :> 4) @@ (15 :> 2) @@ (16 :> 2)
\* the distances up to w from offset o at which a byte with the top bit set lies
MsbWithin(data, o, w) ==
    {j \in 1..w : IF o + j < Len(data) THEN data[o + j + 1] >= 128 ELSE FALSE}
Least(S) == CHOOSE j \in S : \A k \in S : j <= k
\* the loop is at a TV parameter
AtTv == fout.fn = "parseTagReportData" /\ ~fout.done /\ fout.offset < Len(fin.data)
            /\ fin.data[fout.offset + 1] >= 128
\* the loop is at a TLV header that is all there
AtTlv == fout.fn = "parseTagReportData" /\ ~fout.done /\ fout.offset + 4 <= Len(fin.data)
             /\ fin.data[fout.offset + 1] < 128
\* the iteration resumes at the nearest byte with the top bit set within w
\* bytes, or leaves the loop with the tag as it is
Resyncs(w) ==
    LET J == MsbWithin(fin.data, fout.offset, w)
    IN /\ fout'.tag = fout.tag
       /\ IF J = {} THEN fout'.done
          ELSE ~fout'.done /\ fout'.offset = fout.offset + Least(J)

\* C27: an iteration of parseTagReportData at a TV parameter of the table
\* moves the cursor by 1 + the value length of the type; at a TV of another
\* type it resumes at the nearest byte with the top bit set within 16 bytes, or
\* returns the tag as it is; every iteration moves the cursor forward or ends
\* the loop, and the loop ends on every input.
C27_TvSizeClosure ==
    /\ [][AtTv =>
            LET tvType == fin.data[fout.offset + 1] % 128
            IN IF tvType \in DOMAIN TvValueLen
               THEN ~fout'.done /\ fout'.offset = fout.offset + 1 + TvValueLen[tvType]
               ELSE Resyncs(16)]_vars
    /\ [][fout.fn = "parseTagReportData" => fout'.done \/ fout'.offset > fout.offset]_vars
    /\ (fin.fn = "parseTagReportData" => <>(fout.fn = "parseTagReportData" /\ fout.done))

C27_Witness ==
    /\ fout.fn = "parseTagReportData" /\ fout.done
    /\ fin.data = <<148>> \o Zeros(15) \o <<141>> \o EpcA
    /\ fout.offset = 29 /\ FromHex(fout.tag.epc[1]) = EpcA

\* C28: an iteration at a TLV whose length field is below 4 or runs past the
\* end of the record does not accept it: it resumes at the nearest byte with
\* the top bit set within 16 bytes, or abandons the record.
C28_MalformedTlvResyncs ==
    [][AtTlv =>
         LET tlvLen == ReadU16BE(fin.data, fout.offset + 2)
         IN tlvLen < 4 \/ fout.offset + tlvLen > Len(fin.data) => Resyncs(16)]_vars

\* C29: after an iteration at an EPCData (241) of b bits whose bytes are all
\* there, the EPC is the ceil(b / 8) bytes after the bit length.
C29_EpcDataBytes ==
    [][AtTlv =>
         LET o == fout.offset
             tlvLen == ReadU16BE(fin.data, o + 2)
         IN tlvLen >= 6 /\ o + tlvLen <= Len(fin.data)
                /\ ReadU16BE(fin.data, o) % 1024 = 241 =>
              LET bits == ReadU16BE(fin.data, o + 4)
                  bytes == (bits + 7) \div 8
              IN 6 + bytes <= tlvLen =>
                   /\ fout'.tag.epc # Unset
                   /\ FromHex(fout'.tag.epc[1]) = slice(fin.data, o + 6, o + 6 + bytes)]_vars

\* the EPCs of the tags of the reports sent that have one, in the order of the
\* wire
RECURSIVE EpcsOf(_)
EpcsOf(os) ==
    IF os = <<>> THEN <<>>
    ELSE (IF HasEpc(Head(os)) THEN <<Head(os).epc[1]>> ELSE <<>>) \o EpcsOf(Tail(os))
WireOrder == EpcsOf(Flat([i \in 1..Len(sent) |-> sent[i].obs]))
Emitted == [k \in 1..Len(tagLog) |-> FromHex(tagLog[k].epc[1])]

\* C30: however the stream is cut into 'data' events, the 'tag' events emitted
\* so far are the first tags of the wire, in the order of the reports and,
\* within a report, of its parameters; once every byte was consumed they are
\* all of them.
C30_TagsInWireOrder ==
    /\ IsPrefix(Emitted, WireOrder)
    /\ (stream = <<>> /\ cbuf = <<>>) => Emitted = WireOrder

C30_Witness ==
    /\ [i \in 1..Len(sent) |-> sent[i].obs] = <<<<TagA, TagB>>, <<TagB, TagA>>>>
    /\ Len(dispatched) = 1 /\ cbuf # <<>> /\ stream # <<>> /\ ~looping
    /\ Emitted = <<EpcA, EpcB>>

(***************************************************************************)
(* The end of a session, disconnect() and the sockets of one object.       *)
(***************************************************************************)
\* the last event emitted by the step, if it emitted one
NewEvents == IF Len(events') > Len(events)
             THEN {events'[i] : i \in (Len(events) + 1)..Len(events')} ELSE {}
Occurrences(e) == Cardinality({i \in 1..Len(events) : events[i] = e})

\* C32: when the socket of a session without reconnect failed with an error
\* and has closed (disconnect() was not called), the consumer has received
\* 'disconnect' once, and 'error' once after it.
C32_DisconnectThenError ==
    (/\ sockState = "closed" /\ ~config.enableReconnect /\ ~isShuttingDown
     /\ InEvents("error"))
    => /\ Occurrences("disconnect") = 1 /\ Occurrences("error") = 1
       /\ Position("disconnect") < Position("error")

\* C36: once disconnect() was called no step emits a 'tag' event.
C36_NoTagAfterDisconnect == [][isShuttingDown => tags' = tags]_vars

\* C37: once disconnect() was called no step writes a frame other than
\* CLOSE_CONNECTION, and no step emits 'connected' or 'ready'.
C37_DisconnectStopsStartup ==
    [][isShuttingDown =>
         /\ \A f \in NewFrames : FrameType(f) = MSG.CLOSE_CONNECTION
         /\ NewEvents \cap {"connected", "ready"} = {}]_vars

\* C39: a step that opens a socket finds no socket that is not closed: the
\* object has never had one, or the last one has had its 'close' event.
C39_OneSocket == [][conns' > conns => sockState \in {"none", "closed"}]_vars

C39_Witness == conns = 2 /\ sockState = "open" /\ InEvents("connected")

\* C31: a connection that is up and on which the reader has answered nothing
\* does not stay so for ever: the reader answers, or the socket is destroyed
\* (by the 30 s timeout, an error, the remote end or disconnect()).
C31_SilentReaderTimesOut ==
    (sockState = "open" /\ served = 0 /\ buffer = <<>>)
        ~> (sockState # "open" \/ served > 0)

\* the positions of the frames of type t written on the current connection
FramesOfType(t) == {i \in 1..Len(written) : FrameType(written[i]) = t}

\* C38: on a connection at most one GET_READER_CAPABILITIES is written, and
\* it is written after the ENABLE_EVENTS_AND_REPORTS of that connection.
C38_OneCapabilitiesRequest ==
    /\ Cardinality(FramesOfType(MSG.GET_READER_CAPABILITIES)) <= 1
    /\ \A i \in FramesOfType(MSG.GET_READER_CAPABILITIES) :
           \E j \in FramesOfType(MSG.ENABLE_EVENTS_AND_REPORTS) : j < i

\* C33: no read of parseCapabilities, checkResponse or handleErrorMessage is
\* outside the message: none of them throws, whatever the message holds.
C33_ReadsInsideMessage ==
    fout.fn \in {"parseCapabilities", "checkResponse", "handleErrorMessage"} => ~fout.threw

(***************************************************************************)
(* ui-server.js.                                                           *)
(***************************************************************************)
\* the reader of ui-server runs with the latest selection and power, and every
\* reader created before it was disconnected
Restarted ==
    /\ running /\ reader # 0
    /\ readers[reader].config.antennas = antennaSelection
    /\ \A i \in 1..Len(antennaSelection) :
           readers[reader].config.antennaPowerDbm[antennaSelection[i]] = powerDbm
    /\ readers[reader].state = "connecting"
    /\ \A i \in 1..Len(readers) : i # reader => readers[i].state = "disconnected"

\* the last request handled is /stop
StopIsLast == requests # <<>> /\ requests[Len(requests)].path = "/stop"

\* C34: an update that changes the configuration of a running reader
\* disconnects it in the same step, and is followed by a state in which a
\* reader runs with the latest antennaSelection and powerDbm, unless a /stop
\* was handled later.
C34_UpdateRestarts ==
    /\ [][restartTimers' > restartTimers =>
             /\ reader # 0 /\ readers'[reader].state = "disconnected"
             /\ ~running' /\ reader' = 0]_vars
    /\ (restartTimers > 0) ~> (Restarted \/ StopIsLast)

C34_Witness ==
    /\ requests = <<[path |-> "/start"],
                    [path |-> "/config", body |-> [antennas |-> Some(<<2, 1>>), powerDbm |-> Unset]],
                    [path |-> "/config", body |-> [antennas |-> Unset, powerDbm |-> Some(20)]]>>
    /\ restartTimers = 0 /\ Len(readers) = 2 /\ Restarted
    /\ readers[2].config.antennas = <<1, 2>>
    /\ readers[2].config.antennaPowerDbm = [ant \in {1, 2} |-> 20]

\* C35: when the last request handled is /stop, no reader runs.
C35_StopStays ==
    StopIsLast => (~running /\ reader = 0)

(***************************************************************************)
(* minimal.js.                                                             *)
(***************************************************************************)
Handled(t) == Cardinality({i \in 1..Len(handledTypes) : handledTypes[i] = t})
Written(t) == Cardinality({i \in 1..Len(sentTypes) : sentTypes[i] = t})

====
